---- MODULE Spec2Model ----
(***************************************************************************)
(* Model of bot.py: the CSV record pools, the quota-checked allocation     *)
(* (allocate_for_user), the de-duplicating import (_add_new_values), the   *)
(* manager unlock (on_clear_command), clear-all (clear_all_databases) and  *)
(* the moderation of user statuses.                                        *)
(*                                                                         *)
(* Execution model.  Handlers are coroutines of one asyncio event loop: a  *)
(* handler runs without interruption by another handler up to its next     *)
(* await.  Functions handed to asyncio.to_thread run on worker threads,    *)
(* in parallel with the event loop, so a file read and a file write made   *)
(* by the same function are separate steps whenever the other side can     *)
(* run in between.  One _read_csv or _write_csv call is one step.          *)
(*                                                                         *)
(* Text is modelled as sequences of one-character strings; the empty       *)
(* Python string is <<>>.  The per-pool limits of BASE_TYPES (50..300)     *)
(* are scaled down to 2 and 1; two of the eight pools are kept.            *)
(***************************************************************************)
EXTENDS Integers, Sequences, FiniteSets, TLC

\* ------------------------------------------------------------------ bounds
\* Number of handler invocations (messages handled) in one run.
MaxCalls == 4
\* Last instant of the clock (datetime.utcnow()).
MaxNow == 1

\* ------------------------------------------------------------ identities
Users == {1, 2}
Pools == {"telegram", "email"}
PoolOrder == <<"telegram", "email">>

\* BASE_TYPES[key]["limit"], scaled down.
BaseLimit == [telegram |-> 2, email |-> 1]

\* message.from_user.username of each user (None for user 1).
Username == [u \in Users |-> IF u = 1 THEN <<>> ELSE <<"b", "o", "b">>]

\* ------------------------------------------------------------------ text
Digits == <<"0", "1", "2", "3", "4", "5", "6", "7", "8", "9">>

\* None, where Python has it next to strings.
None == <<"None">>

IsSpace(c) == c = " "

RECURSIVE lstrip(_)
lstrip(s) == IF s # <<>> /\ IsSpace(Head(s)) THEN lstrip(Tail(s)) ELSE s

RECURSIVE rstrip(_)
rstrip(s) ==
    IF s # <<>> /\ IsSpace(s[Len(s)]) THEN rstrip(SubSeq(s, 1, Len(s) - 1)) ELSE s

\* str.strip()
strip(s) == rstrip(lstrip(s))

\* str.startswith("=")
startswith_eq(s) == s # <<>> /\ Head(s) = "="

LowerChar(c) ==
    CASE c = "A" -> "a"
      [] c = "B" -> "b"
      [] c = "C" -> "c"
      [] c = "V" -> "v"
      [] OTHER -> c

\* str.lower()
lower(s) == [i \in 1..Len(s) |-> LowerChar(s[i])]

\* str(n) for 0 <= n <= 99
str_int(n) == IF n < 10 THEN <<Digits[n + 1]>> ELSE <<Digits[(n \div 10) + 1], Digits[(n % 10) + 1]>>

DigitValue(c) == CHOOSE d \in 0..9 : Digits[d + 1] = c

IsDigit(c) == \E d \in 1..10 : Digits[d] = c

\* int(s) succeeds (no ValueError): decimal digits, surrounding blanks allowed.
int_ok(s) == LET t == strip(s) IN t # <<>> /\ \A i \in 1..Len(t) : IsDigit(t[i])

RECURSIVE int_digits(_, _)
int_digits(t, acc) ==
    IF t = <<>> THEN acc ELSE int_digits(Tail(t), 10 * acc + DigitValue(Head(t)))

\* int(s)
int_of(s) == int_digits(strip(s), 0)

\* Mutant of strftime: the date text is empty.
strftime_empty(t) == <<>>

\* datetime.strftime("%Y.%m.%d %H:%M:%S"), on the instants 0..MaxNow
strftime(t) == <<"t">> \o str_int(t)

\* ------------------------------------------------------------- pool rows
\* One CSV row: Value, ID, Username, Date.  The code writes only 4-field rows.
Row(v, id, name, date) == [v |-> v, id |-> id, name |-> name, date |-> date]

\* The header row written by ensure_csv_exists and clear_all_databases.
Header == Row(<<"V", "a", "l", "u", "e">>, <<"I", "D">>, <<"U", "s", "e", "r", "n", "a", "m", "e">>, <<"D", "a", "t", "e">>)

\* Value normalisation of _assign_records_csv and get_user_contacts:
\* row[0].strip(), then one leading "=" removed.
row_value(row) == LET s == strip(row.v) IN IF startswith_eq(s) THEN Tail(s) ELSE s

RECURSIVE count_from(_, _, _)
count_from(rows, i, user_id) ==
    IF i > Len(rows) THEN 0
    ELSE (IF rows[i].id # <<>> /\ int_ok(rows[i].id) /\ int_of(rows[i].id) = user_id THEN 1 ELSE 0)
         + count_from(rows, i + 1, user_id)

\* _count_user_records: rows[1:] whose ID parses to user_id.
count_user_records(rows, user_id) == count_from(rows, 2, user_id)

RECURSIVE assign_from(_, _, _, _, _, _, _)
assign_from(rows, i, taken, count, user_id, username, now) ==
    IF i > Len(rows) \/ Len(taken) >= count THEN [rows |-> rows, taken |-> taken]
    ELSE IF rows[i].id # <<>> THEN assign_from(rows, i + 1, taken, count, user_id, username, now)
    ELSE IF row_value(rows[i]) = <<>> THEN assign_from(rows, i + 1, taken, count, user_id, username, now)
    ELSE assign_from([rows EXCEPT ![i] = Row(rows[i].v, str_int(user_id), username, now)],
                     i + 1, Append(taken, row_value(rows[i])), count, user_id, username, now)

RECURSIVE assign_back(_, _, _, _, _, _, _)
assign_back(rows, i, taken, count, user_id, username, now) ==
    IF i < 2 \/ Len(taken) >= count THEN [rows |-> rows, taken |-> taken]
    ELSE IF rows[i].id # <<>> \/ row_value(rows[i]) = <<>>
        THEN assign_back(rows, i - 1, taken, count, user_id, username, now)
    ELSE assign_back([rows EXCEPT ![i] = Row(rows[i].v, str_int(user_id), username, now)],
                     i - 1, Append(taken, row_value(rows[i])), count, user_id, username, now)

\* Mutant of assign_records_csv: the rows are scanned from the last one.
assign_records_from_end(rows, count, user_id, username, now) ==
    assign_back(rows, Len(rows), <<>>, count, user_id, username, now)

\* _assign_records_csv: marks the first `count` free, non-empty rows of rows[1:].
assign_records_csv(rows, count, user_id, username, now) ==
    assign_from(rows, 2, <<>>, count, user_id, username, now)

\* free_count of allocate_for_user._worker: every row of the file, the header
\* included, whose ID field is empty.
free_count(rows) == Cardinality({i \in 1..Len(rows) : rows[i].id = <<>>})

\* Mutant of worker: the supply check is missing.
worker_no_supply_check(rows, total_allowed, user_id, username, now) ==
    LET current == count_user_records(rows, user_id)
        can_give == total_allowed - current
        res == assign_records_csv(rows, can_give, user_id, username, now)
    IN  IF current >= total_allowed
            THEN [rows |-> rows, taken |-> <<>>, reason |-> "already_got", write |-> FALSE]
        ELSE [rows |-> res.rows, taken |-> res.taken, reason |-> "None", write |-> res.taken # <<>>]

\* Mutant of worker: the records the user already holds are not subtracted.
worker_ignores_current(rows, total_allowed, user_id, username, now) ==
    LET current == count_user_records(rows, user_id)
        can_give == total_allowed
        res == assign_records_csv(rows, can_give, user_id, username, now)
    IN  IF current >= total_allowed
            THEN [rows |-> rows, taken |-> <<>>, reason |-> "already_got", write |-> FALSE]
        ELSE IF free_count(rows) < can_give
            THEN [rows |-> rows, taken |-> <<>>, reason |-> "not_enough", write |-> FALSE]
        ELSE [rows |-> res.rows, taken |-> res.taken, reason |-> "None", write |-> res.taken # <<>>]

\* allocate_for_user._worker on the rows it read.  write tells whether
\* _write_csv is called.
worker(rows, total_allowed, user_id, username, now) ==
    LET current == count_user_records(rows, user_id)
        can_give == total_allowed - current
        res == assign_records_csv(rows, can_give, user_id, username, now)
    IN  IF current >= total_allowed
            THEN [rows |-> rows, taken |-> <<>>, reason |-> "already_got", write |-> FALSE]
        ELSE IF free_count(rows) < can_give
            THEN [rows |-> rows, taken |-> <<>>, reason |-> "not_enough", write |-> FALSE]
        ELSE [rows |-> res.rows, taken |-> res.taken, reason |-> "None", write |-> res.taken # <<>>]

\* ---------------------------------------------------------------- import
\* A spreadsheet cell: empty, text, or a float n (whole) or n.5 (not whole).
NoCell == [kind |-> "none", s |-> <<>>, n |-> 0, whole |-> FALSE]
Str(s) == [kind |-> "str", s |-> s, n |-> 0, whole |-> FALSE]
Float(n, whole) == [kind |-> "float", s |-> <<>>, n |-> n, whole |-> whole]

\* str(val)
str_of(val) ==
    IF val.kind = "str" THEN val.s
    ELSE str_int(val.n) \o (IF val.whole THEN <<".", "0">> ELSE <<".", "5">>)

clean_value(val) ==
    IF val.kind = "none" THEN None
    ELSE IF val.kind = "float" /\ val.whole THEN str_int(val.n)
    ELSE LET s == strip(str_of(val))
             t == IF startswith_eq(s) THEN Tail(s) ELSE s
         IN  IF t # <<>> THEN t ELSE None

\* Truth value of an Optional[str].
truthy(s) == s # None /\ s # <<>>

\* _get_existing_values: lower-cased, stripped values of rows[1:].
get_existing_values(rows) ==
    {lower(strip(rows[i].v)) : i \in {j \in 2..Len(rows) : rows[j].v # <<>>}}

\* Mutant of add_from: values added earlier in the batch are not remembered.
RECURSIVE add_from_forgets_batch(_, _, _, _)
add_from_forgets_batch(rows, existing, new_values, added) ==
    IF new_values = <<>> THEN [rows |-> rows, added |-> added]
    ELSE LET val_clean == clean_value(Str(Head(new_values))) IN
         IF truthy(val_clean) /\ lower(val_clean) \notin existing
            THEN add_from_forgets_batch(Append(rows, Row(val_clean, <<>>, <<>>, <<>>)),
                                        existing, Tail(new_values), added + 1)
            ELSE add_from_forgets_batch(rows, existing, Tail(new_values), added)

RECURSIVE add_from(_, _, _, _)
add_from(rows, existing, new_values, added) ==
    IF new_values = <<>> THEN [rows |-> rows, added |-> added]
    ELSE LET val_clean == clean_value(Str(Head(new_values))) IN
         IF truthy(val_clean) /\ lower(val_clean) \notin existing
            THEN add_from(Append(rows, Row(val_clean, <<>>, <<>>, <<>>)),
                          existing \cup {lower(val_clean)}, Tail(new_values), added + 1)
            ELSE add_from(rows, existing, Tail(new_values), added)

\* _add_new_values on the rows it read: the rows it would write, and added.
add_new_values(rows, new_values) == add_from(rows, get_existing_values(rows), new_values, 0)

\* The words on_admin_file_received drops as header cells ("value"; the three
\* Russian words are outside the alphabet of the model).
HeaderWords == {<<"v", "a", "l", "u", "e">>}

RECURSIVE sheet_values(_)
\* on_admin_file_received: the new_values it collects from the first column.
sheet_values(cells) ==
    IF cells = <<>> THEN <<>>
    ELSE LET val == clean_value(Head(cells)) IN
         IF truthy(val) /\ lower(val) \notin HeaderWords
            THEN <<val>> \o sheet_values(Tail(cells))
            ELSE sheet_values(Tail(cells))

\* ----------------------------------------------------------------- state
VARIABLES
    files,             \* pool key -> rows of its CSV file, header first
    user_limits,       \* user_limits.csv: (user_id, base_type) -> extra_limit
    user_status,       \* user_status.csv: user_id -> status
    support_topics,    \* support_topics.csv: the users that have a topic
    csv_lock,          \* asyncio.Lock: its holder and its FIFO of waiters
    processing_users,  \* pool key -> users with a request in flight
    alloc,             \* (user, pool) -> the on_user_base_choice call in flight
    imp,               \* the _add_new_values call the event loop is inside
    clr,               \* the on_admin_delete_confirm call in flight
    unl,               \* the on_clear_command call in flight
    now,               \* datetime.utcnow()
    calls,             \* handler invocations so far
    last_ok,           \* history: slots whose last call succeeded, nothing changed since
    overlap,           \* history: (pool, row, user): the row was claimed while user's call was in flight
    last_full,         \* history: slots whose last call wrote the batch that follows an unlock
    reg,               \* user -> the on_send_request call in flight
    sts,               \* the on_stats call in flight
    cts,               \* the on_contacts_command call in flight
    refused,           \* history: slots in flight for which a second request was turned away
    admins,            \* admins.txt: the identities save_admin has stored
    fsm,               \* the dispatcher's FSM storage: the dialog state of each identity
    deleting,          \* the identity whose on_admin_delete_confirm is in flight, 0 if none
    asked              \* history: slots in flight whose request arrived in waiting_delete_confirm

vars == <<files, user_limits, user_status, support_topics, csv_lock,
          processing_users, alloc, imp, clr, unl, now, calls, last_ok, overlap, last_full, refused,
          reg, sts, cts, admins, fsm, deleting, asked>>

Slots == Users \X Pools

NoOp == [op |-> "none", u |-> 0, p |-> ""]
AllocOp(u, p) == [op |-> "alloc", u |-> u, p |-> p]
ClearOp == [op |-> "clear", u |-> 0, p |-> ""]

NoResult == [rows |-> <<>>, taken |-> <<>>, reason |-> "", write |-> FALSE]
IdleAlloc == [pc |-> "idle", total_allowed |-> 0, loaded |-> <<>>, res |-> NoResult]
IdleImport == [pc |-> "idle", p |-> "", rows |-> <<>>, added |-> 0]
IdleClear == [pc |-> "idle", i |-> 0, count |-> 0]
IdleUnlock == [pc |-> "idle", u |-> 0, i |-> 0, used |-> <<>>]
NoTotals == [free |-> 0, all |-> 0, day |-> 0, week |-> 0, month |-> 0]
IdleStats == [pc |-> "idle", i |-> 0, now |-> 0, free_stats |-> <<>>, issued_stats |-> <<>>,
              read |-> <<>>, totals |-> NoTotals]
IdleContacts == [pc |-> "idle", u |-> 0, i |-> 0, result |-> <<>>, read |-> <<>>]

\* load_user_limits().get((user_id, base_type), 0)
get_user_extra_limit(limits, user_id, base_type) ==
    IF <<user_id, base_type>> \in DOMAIN limits THEN limits[<<user_id, base_type>>] ELSE 0

\* Mutant of set_user_extra_limit: the saved ledger holds the new entry only.
set_user_extra_limit_only_key(limits, user_id, base_type, value) ==
    [k \in {<<user_id, base_type>>} |-> value]

\* Mutant of set_user_extra_limit: the value is added to the entry.
set_user_extra_limit_adds(limits, user_id, base_type, value) ==
    [k \in DOMAIN limits \cup {<<user_id, base_type>>} |->
        IF k = <<user_id, base_type>>
            THEN (IF k \in DOMAIN limits THEN limits[k] ELSE 0) + value
            ELSE limits[k]]

\* set_user_extra_limit: the ledger with limits[key] = value.
set_user_extra_limit(limits, user_id, base_type, value) ==
    [k \in DOMAIN limits \cup {<<user_id, base_type>>} |->
        IF k = <<user_id, base_type>> THEN value ELSE limits[k]]

\* load_user_statuses().get(user_id); "unset" stands for None.
get_user_status(statuses, user_id) ==
    IF user_id \in DOMAIN statuses THEN statuses[user_id] ELSE "unset"

\* What csv.writer puts in a cell for a status: None is written as the empty
\* string, and load_user_statuses reads the cell back as it stands.
status_cell(status) == IF status = "unset" THEN "" ELSE status

\* set_user_status: the status file with statuses[user_id] = status.
set_user_status(statuses, user_id, status) ==
    [k \in DOMAIN statuses \cup {user_id} |->
        IF k = user_id THEN status_cell(status) ELSE statuses[k]]

is_user_approved(statuses, user_id) == get_user_status(statuses, user_id) = "approved"

\* _read_csv
read_csv(p) == files[p]

\* The event loop is inside a handler's synchronous code: _add_new_values
\* between its read and its write, or the loop of on_clear_command after its
\* first iteration.  No other handler runs then; worker threads do.
LoopBusy == imp.pc = "write" \/ (unl.pc = "apply" /\ unl.i > 1)

\* csv_lock.acquire() by op: at once when the lock is free, else queued.
acquire(lock, op) ==
    IF lock.holder = NoOp /\ lock.waiters = <<>>
        THEN [holder |-> op, waiters |-> <<>>]
        ELSE [holder |-> lock.holder, waiters |-> Append(lock.waiters, op)]

\* Mutant of release: the lock is freed and no waiter is woken.
release_wakes_nobody(lock) == [holder |-> NoOp, waiters |-> lock.waiters]

\* csv_lock.release(): the first waiter, if any, is woken and owns the lock.
release(lock) ==
    IF lock.waiters = <<>>
        THEN [holder |-> NoOp, waiters |-> <<>>]
        ELSE [holder |-> Head(lock.waiters), waiters |-> Tail(lock.waiters)]

\* The calls after `lock` changed hands: the new holder starts its worker.
WokenAlloc(a, lock) ==
    [s \in Slots |->
        IF lock.holder = AllocOp(s[1], s[2]) /\ a[s].pc = "wait"
            THEN [a[s] EXCEPT !.pc = "run"] ELSE a[s]]

WokenClear(c, lock) ==
    IF lock.holder = ClearOp /\ c.pc = "wait" THEN [c EXCEPT !.pc = "run", !.i = 1] ELSE c

\* The pool files as the run finds them: filled by earlier imports, nothing
\* claimed.  The second telegram value was imported from the cell "===".
InitFiles ==
    [telegram |-> <<Header, Row(<<"a">>, <<>>, <<>>, <<>>), Row(<<"=">>, <<>>, <<>>, <<>>)>>,
     email |-> <<Header, Row(<<"a">>, <<>>, <<>>, <<>>), Row(<<"b">>, <<>>, <<>>, <<>>)>>]

\* A handler is invoked: one more message of the run's MaxCalls.
Call == calls < MaxCalls /\ calls' = calls + 1

\* user_status.csv as the run finds it: user 1 approved, user 2 waiting.
InitStatus == (1 :> "approved") @@ (2 :> "pending")

Init ==
    /\ files = InitFiles
    /\ user_limits = [k \in {} |-> 0]
    /\ user_status = InitStatus
    /\ support_topics = {1, 2}
    /\ csv_lock = [holder |-> NoOp, waiters |-> <<>>]
    /\ processing_users = [p \in Pools |-> {}]
    /\ alloc = [s \in Slots |-> IdleAlloc]
    /\ imp = IdleImport
    /\ clr = IdleClear
    /\ unl = IdleUnlock
    /\ now = 0
    /\ calls = 0
    /\ last_ok = {}
    /\ overlap = {}
    /\ last_full = {}
    /\ refused = {}
    /\ reg = [u \in Users |-> "idle"]
    /\ sts = IdleStats
    /\ cts = IdleContacts
    /\ admins = {}
    /\ fsm = [u \in Users |-> "None"]
    /\ deleting = 0
    /\ asked = {}

\* Rows of a call's loaded file that the call marked as claimed.
Marks(a) == {i \in 2..Len(a.loaded) : a.loaded[i].id = <<>> /\ a.res.rows[i].id # <<>>}

\* A call that started with extra_limit equal to the user's claimed count
\* (the state an unlock leaves) and took one full base batch.
PostUnlockFull(a, s) ==
    /\ a.res.reason = "None"
    /\ Len(a.res.taken) = BaseLimit[s[2]]
    /\ a.total_allowed > BaseLimit[s[2]]
    /\ count_user_records(a.loaded, s[1]) = a.total_allowed - BaseLimit[s[2]]

\* The history variables, as functions of the step taken.
\* last_ok: a slot enters when its call returns success; it leaves when its
\* pool file or its ledger entry changes and when its next call has loaded.
\* last_full: a slot enters when its call writes a full base batch taken
\* right after an unlock; it leaves when its pool file or its ledger entry
\* changes.
\* refused: a slot enters when on_user_base_choice turns a second request for
\* it away; it leaves when its call returns.
\* overlap: (p, i, w) enters when a call writes row i of p as claimed while
\* w's call on p is in flight; it leaves when w's call returns and when p is
\* cleared.
History ==
    /\ last_ok' =
          {s \in last_ok \cup {t \in Slots : alloc[t].pc = "ret" /\ alloc'[t].pc = "idle"
                                            /\ alloc[t].res.reason = "None"} :
              /\ files'[s[2]] = files[s[2]]
              /\ get_user_extra_limit(user_limits', s[1], s[2])
                    = get_user_extra_limit(user_limits, s[1], s[2])
              /\ ~(alloc[s].pc = "run" /\ alloc'[s].pc # "run")}
    /\ overlap' =
          LET written == UNION {{<<s[2], i, w>> : i \in Marks(alloc[s]),
                                     w \in {x \in Users : x # s[1] /\ alloc[<<x, s[2]>>].pc # "idle"}} :
                                   s \in {t \in Slots : alloc[t].pc = "write" /\ alloc'[t].pc = "ret"}}
          IN  {e \in overlap \cup written :
                  /\ ~(alloc[<<e[3], e[1]>>].pc = "ret" /\ alloc'[<<e[3], e[1]>>].pc = "idle")
                  /\ ~(clr.pc = "run" /\ PoolOrder[clr.i] = e[1])}
    /\ last_full' =
          {s \in last_full :
              /\ files'[s[2]] = files[s[2]]
              /\ get_user_extra_limit(user_limits', s[1], s[2])
                    = get_user_extra_limit(user_limits, s[1], s[2])}
          \cup {t \in Slots : /\ alloc[t].pc = "write" /\ alloc'[t].pc = "ret"
                               /\ PostUnlockFull(alloc[t], t)}
    /\ refused' = {s \in refused : ~(alloc[s].pc = "ret" /\ alloc'[s].pc = "idle")}
    /\ asked' = {s \in asked \cup {t \in Slots : /\ alloc[t].pc = "idle"
                                                 /\ alloc'[t].pc # "idle"
                                                 /\ fsm[t[1]] = "waiting_delete_confirm"} :
                    alloc'[s].pc # "idle"}

\* ------------------------------------------------------- allocate request
\* Mutant of on_user_base_choice: the in-flight guard is missing.
on_user_base_choice_unguarded(u, p) ==
    /\ ~LoopBusy
    /\ Call
    /\ is_user_approved(user_status, u)
    /\ processing_users' = [processing_users EXCEPT ![p] = @ \cup {u}]
    /\ LET total_allowed == BaseLimit[p] + get_user_extra_limit(user_limits, u, p)
           lock == acquire(csv_lock, AllocOp(u, p))
       IN  /\ csv_lock' = lock
           /\ alloc' = [alloc EXCEPT ![<<u, p>>] =
                  [pc |-> IF lock.holder = AllocOp(u, p) THEN "run" ELSE "wait",
                   total_allowed |-> total_allowed, loaded |-> <<>>, res |-> NoResult]]
    /\ UNCHANGED <<admins, fsm, deleting, reg, sts, cts, files, user_limits, user_status, support_topics, imp, clr, unl, now>>
    /\ History

\* on_user_base_choice up to its first suspension: the approval check, the
\* in-flight guard, the allowance read by allocate_for_user, csv_lock.acquire().
on_user_base_choice(u, p) ==
    /\ ~LoopBusy
    /\ Call
    /\ is_user_approved(user_status, u)
    /\ u \notin processing_users[p]
    /\ processing_users' = [processing_users EXCEPT ![p] = @ \cup {u}]
    /\ LET total_allowed == BaseLimit[p] + get_user_extra_limit(user_limits, u, p)
           lock == acquire(csv_lock, AllocOp(u, p))
       IN  /\ csv_lock' = lock
           /\ alloc' = [alloc EXCEPT ![<<u, p>>] =
                  [pc |-> IF lock.holder = AllocOp(u, p) THEN "run" ELSE "wait",
                   total_allowed |-> total_allowed, loaded |-> <<>>, res |-> NoResult]]
    /\ UNCHANGED <<admins, fsm, deleting, reg, sts, cts, files, user_limits, user_status, support_topics, imp, clr, unl, now>>
    /\ History

\* on_user_base_choice for a user whose request for the pool is in flight:
\* the handler answers and returns.
on_user_base_choice_busy(u, p) ==
    /\ ~LoopBusy
    /\ Call
    /\ is_user_approved(user_status, u)
    /\ u \in processing_users[p]
    /\ refused' = refused \cup {<<u, p>>}
    /\ UNCHANGED <<admins, fsm, deleting, reg, sts, cts, files, user_limits, user_status, support_topics, csv_lock,
                   processing_users, alloc, imp, clr, unl, now,
                   last_ok, overlap, last_full, asked>>

\* _worker on its thread: _read_csv and everything up to _write_csv.
worker_read(u, p) ==
    /\ alloc[<<u, p>>].pc = "run"
    /\ LET rows == read_csv(p)
           res == worker(rows, alloc[<<u, p>>].total_allowed, u, Username[u], strftime(now))
       IN  alloc' = [alloc EXCEPT ![<<u, p>>] =
               [@ EXCEPT !.pc = IF res.write THEN "write" ELSE "ret",
                         !.loaded = rows, !.res = res]]
    /\ UNCHANGED <<admins, fsm, deleting, reg, sts, cts, files, user_limits, user_status, support_topics, csv_lock,
                   processing_users, imp, clr, unl, now, calls>>
    /\ History

\* _worker on its thread: _read_csv raises (the file cannot be opened); the
\* exception travels through asyncio.to_thread to on_user_base_choice.
worker_raises(u, p) ==
    /\ alloc[<<u, p>>].pc = "run"
    /\ alloc' = [alloc EXCEPT ![<<u, p>>] =
           [@ EXCEPT !.pc = "ret", !.res = [NoResult EXCEPT !.reason = "error"]]]
    /\ UNCHANGED <<admins, fsm, deleting, reg, sts, cts, files, user_limits, user_status, support_topics, csv_lock,
                   processing_users, imp, clr, unl, now, calls>>
    /\ History

\* _worker on its thread: _write_csv(csv_path, rows).
worker_write(u, p) ==
    /\ alloc[<<u, p>>].pc = "write"
    /\ files' = [files EXCEPT ![p] = alloc[<<u, p>>].res.rows]
    /\ alloc' = [alloc EXCEPT ![<<u, p>>] = [@ EXCEPT !.pc = "ret"]]
    /\ UNCHANGED <<admins, fsm, deleting, reg, sts, cts, user_limits, user_status, support_topics, csv_lock,
                   processing_users, imp, clr, unl, now, calls>>
    /\ History

\* Mutant of allocate_return: the in-flight marker is discarded after the
\* answer, which an exception skips.
allocate_return_keeps_marker(u, p) ==
    /\ ~LoopBusy
    /\ alloc[<<u, p>>].pc = "ret"
    /\ LET lock == release(csv_lock) IN
        /\ csv_lock' = lock
        /\ alloc' = WokenAlloc([alloc EXCEPT ![<<u, p>>] = IdleAlloc], lock)
        /\ clr' = WokenClear(clr, lock)
    /\ processing_users' =
          IF alloc[<<u, p>>].res.reason = "error" THEN processing_users
          ELSE [processing_users EXCEPT ![p] = @ \ {u}]
    /\ UNCHANGED <<admins, fsm, deleting, reg, sts, cts, files, user_limits, user_status, support_topics, imp, unl, now, calls>>
    /\ History

\* on_user_base_choice resumes with the worker's result: `async with` releases
\* csv_lock, `finally` discards the in-flight marker.
allocate_return(u, p) ==
    /\ ~LoopBusy
    /\ alloc[<<u, p>>].pc = "ret"
    /\ LET lock == release(csv_lock) IN
        /\ csv_lock' = lock
        /\ alloc' = WokenAlloc([alloc EXCEPT ![<<u, p>>] = IdleAlloc], lock)
        /\ clr' = WokenClear(clr, lock)
    /\ processing_users' = [processing_users EXCEPT ![p] = @ \ {u}]
    /\ UNCHANGED <<admins, fsm, deleting, reg, sts, cts, files, user_limits, user_status, support_topics, imp, unl, now, calls>>
    /\ History

\* ----------------------------------------------------------------- import
\* on_admin_file_received for one pool, up to the _read_csv of _add_new_values
\* and the merge computed from it.  No lock is taken.
import_read(p, cells) ==
    /\ ~LoopBusy
    /\ Call
    /\ LET new_values == sheet_values(cells)
           res == add_new_values(read_csv(p), new_values)
       IN  /\ new_values # <<>>
           /\ res.added > 0
                  /\ imp' = [pc |-> "write", p |-> p, rows |-> res.rows, added |-> res.added]
    /\ UNCHANGED <<admins, fsm, deleting, reg, sts, cts, files, user_limits, user_status, support_topics, csv_lock,
                   processing_users, alloc, clr, unl, now>>
    /\ History

\* _add_new_values: _write_csv(csv_path, rows), reached when added > 0.
import_write ==
    /\ imp.pc = "write"
    /\ files' = [files EXCEPT ![imp.p] = imp.rows]
    /\ imp' = IdleImport
    /\ UNCHANGED <<admins, fsm, deleting, reg, sts, cts, user_limits, user_status, support_topics, csv_lock,
                   processing_users, alloc, clr, unl, now, calls>>
    /\ History

\* ---------------------------------------------------------------- clear-all
\* on_admin_delete_confirm up to csv_lock.acquire().
on_admin_delete_confirm ==
    /\ ~LoopBusy
    /\ Call
    /\ clr.pc = "idle"
    /\ LET lock == acquire(csv_lock, ClearOp) IN
        /\ csv_lock' = lock
        /\ clr' = [pc |-> IF lock.holder = ClearOp THEN "run" ELSE "wait",
                   i |-> IF lock.holder = ClearOp THEN 1 ELSE 0, count |-> 0]
    /\ UNCHANGED <<admins, fsm, deleting, reg, sts, cts, files, user_limits, user_status, support_topics,
                   processing_users, alloc, imp, unl, now>>
    /\ History

\* Mutant of clear_all_databases: the rewrite of a pool file also empties
\* the quota ledger.
clear_all_databases_and_ledger ==
    /\ clr.pc = "run"
    /\ files' = [files EXCEPT ![PoolOrder[clr.i]] = <<Header>>]
    /\ user_limits' = [k \in {} |-> 0]
    /\ clr' = IF clr.i = Len(PoolOrder)
                 THEN [pc |-> "ret", i |-> 0, count |-> clr.count + 1]
                 ELSE [clr EXCEPT !.i = @ + 1, !.count = @ + 1]
    /\ UNCHANGED <<admins, fsm, deleting, reg, sts, cts, user_status, support_topics, csv_lock,
                   processing_users, alloc, imp, unl, now, calls>>
    /\ History

\* clear_all_databases on its thread: one pool file rewritten per step.
clear_all_databases ==
    /\ clr.pc = "run"
    /\ files' = [files EXCEPT ![PoolOrder[clr.i]] = <<Header>>]
    /\ clr' = IF clr.i = Len(PoolOrder)
                 THEN [pc |-> "ret", i |-> 0, count |-> clr.count + 1]
                 ELSE [clr EXCEPT !.i = @ + 1, !.count = @ + 1]
    /\ UNCHANGED <<admins, fsm, deleting, reg, sts, cts, user_limits, user_status, support_topics, csv_lock,
                   processing_users, alloc, imp, unl, now, calls>>
    /\ History

\* clear_all_databases on its thread: open() raises; the exception leaves
\* `async with csv_lock` in on_admin_delete_confirm.
clear_all_databases_raises ==
    /\ clr.pc = "run"
    /\ clr' = [pc |-> "ret", i |-> 0, count |-> clr.count]
    /\ UNCHANGED <<admins, fsm, deleting, reg, sts, cts, files, user_limits, user_status, support_topics, csv_lock,
                   processing_users, alloc, imp, unl, now, calls>>
    /\ History

\* on_admin_delete_confirm resumes: csv_lock released.
delete_return ==
    /\ ~LoopBusy
    /\ clr.pc = "ret"
    /\ LET lock == release(csv_lock) IN
        /\ csv_lock' = lock
        /\ alloc' = WokenAlloc(alloc, lock)
    /\ clr' = IdleClear
    /\ UNCHANGED <<admins, fsm, deleting, reg, sts, cts, files, user_limits, user_status, support_topics,
                   processing_users, imp, unl, now, calls>>
    /\ History

\* ------------------------------------------------------------------ unlock
\* on_clear_command for the user of the topic, up to
\* `await asyncio.to_thread(get_user_used_types, user_id)`.
on_clear_command(u) ==
    /\ ~LoopBusy
    /\ Call
    /\ unl.pc = "idle"
    /\ u \in support_topics
    /\ unl' = [pc |-> "scan", u |-> u, i |-> 1, used |-> <<>>]
    /\ UNCHANGED <<admins, fsm, deleting, reg, sts, cts, files, user_limits, user_status, support_topics, csv_lock,
                   processing_users, alloc, imp, clr, now>>
    /\ History

\* get_user_used_types on its thread: one pool file read per step.
get_user_used_types ==
    /\ unl.pc = "scan"
    /\ LET key == PoolOrder[unl.i]
           count == count_user_records(read_csv(key), unl.u)
           used == IF count > 0 THEN Append(unl.used, key) ELSE unl.used
       IN  unl' = IF unl.i = Len(PoolOrder)
                     THEN [unl EXCEPT !.pc = "apply", !.i = 1, !.used = used]
                     ELSE [unl EXCEPT !.i = @ + 1, !.used = used]
    /\ UNCHANGED <<admins, fsm, deleting, reg, sts, cts, files, user_limits, user_status, support_topics, csv_lock,
                   processing_users, alloc, imp, clr, now, calls>>
    /\ History

\* on_clear_command resumes with no used type: it only answers.
clear_nothing_used ==
    /\ ~LoopBusy
    /\ unl.pc = "apply"
    /\ unl.used = <<>>
    /\ unl' = IdleUnlock
    /\ UNCHANGED <<admins, fsm, deleting, reg, sts, cts, files, user_limits, user_status, support_topics, csv_lock,
                   processing_users, alloc, imp, clr, now, calls>>
    /\ History

\* Mutant of clear_unlock_type: every iteration grants one more base batch,
\* whether the allowance is used up or not.
clear_unlock_type_always ==
    /\ unl.pc = "apply"
    /\ unl.used # <<>>
    /\ unl.i = 1 => ~LoopBusy
    /\ LET key == unl.used[unl.i]
           extra_limit == get_user_extra_limit(user_limits, unl.u, key)
       IN  user_limits' = set_user_extra_limit(user_limits, unl.u, key, extra_limit + BaseLimit[key])
    /\ unl' = IF unl.i = Len(unl.used) THEN IdleUnlock ELSE [unl EXCEPT !.i = @ + 1]
    /\ UNCHANGED <<admins, fsm, deleting, reg, sts, cts, files, user_status, support_topics, csv_lock,
                   processing_users, alloc, imp, clr, now, calls>>
    /\ History

\* One iteration of `for key in used_types` of on_clear_command: the ledger
\* and the pool file are read, and extra_limit is set to current when the
\* current allowance is used up.  No lock is taken.
clear_unlock_type ==
    /\ unl.pc = "apply"
    /\ unl.used # <<>>
    /\ unl.i = 1 => ~LoopBusy
    /\ LET key == unl.used[unl.i]
           total_allowed == BaseLimit[key] + get_user_extra_limit(user_limits, unl.u, key)
           current == count_user_records(read_csv(key), unl.u)
       IN  user_limits' = IF current >= total_allowed
                             THEN set_user_extra_limit(user_limits, unl.u, key, current)
                             ELSE user_limits
    /\ unl' = IF unl.i = Len(unl.used) THEN IdleUnlock ELSE [unl EXCEPT !.i = @ + 1]
    /\ UNCHANGED <<admins, fsm, deleting, reg, sts, cts, files, user_status, support_topics, csv_lock,
                   processing_users, alloc, imp, clr, now, calls>>
    /\ History

\* -------------------------------------------------------------- moderation
\* /add in the user's topic.
on_add_user(u) ==
    /\ ~LoopBusy
    /\ Call
    /\ u \in support_topics
    /\ get_user_status(user_status, u) # "approved"
    /\ user_status' = set_user_status(user_status, u, "approved")
    /\ UNCHANGED <<admins, fsm, deleting, reg, sts, cts, files, user_limits, support_topics, csv_lock,
                   processing_users, alloc, imp, clr, unl, now>>
    /\ History

\* /ban in the user's topic.
on_ban_user(u) ==
    /\ ~LoopBusy
    /\ Call
    /\ u \in support_topics
    /\ user_status' = set_user_status(user_status, u, "banned")
    /\ user_status' # user_status
    /\ UNCHANGED <<admins, fsm, deleting, reg, sts, cts, files, user_limits, support_topics, csv_lock,
                   processing_users, alloc, imp, clr, unl, now>>
    /\ History

\* /unban in the user's topic.
on_unban_user(u) ==
    /\ ~LoopBusy
    /\ Call
    /\ u \in support_topics
    /\ get_user_status(user_status, u) = "banned"
    /\ user_status' = set_user_status(user_status, u, "approved")
    /\ UNCHANGED <<admins, fsm, deleting, reg, sts, cts, files, user_limits, support_topics, csv_lock,
                   processing_users, alloc, imp, clr, unl, now>>
    /\ History

\* Time passes.
Tick ==
    /\ now < MaxNow
    /\ now' = now + 1
    /\ UNCHANGED <<admins, fsm, deleting, reg, sts, cts, files, user_limits, user_status, support_topics, csv_lock,
                   processing_users, alloc, imp, clr, unl, calls>>
    /\ History

\* ------------------------------------------------------------ input sets
\* The first columns of the sheets an admin uploads.
Sheets == {<<Str(<<"c">>)>>, <<Str(<<"=", "=">>), Str(<<"A">>)>>}

Next ==
    \/ \E u \in Users, p \in Pools : on_user_base_choice(u, p)
    \/ \E u \in Users, p \in Pools : on_user_base_choice_busy(u, p)
    \/ \E u \in Users, p \in Pools : worker_read(u, p)
    \/ \E u \in Users, p \in Pools : worker_raises(u, p)
    \/ \E u \in Users, p \in Pools : worker_write(u, p)
    \/ \E u \in Users, p \in Pools : allocate_return(u, p)
    \/ \E p \in Pools, cells \in Sheets : import_read(p, cells)
    \/ import_write
    \/ on_admin_delete_confirm
    \/ clear_all_databases
    \/ clear_all_databases_raises
    \/ delete_return
    \/ \E u \in Users : on_clear_command(u)
    \/ get_user_used_types
    \/ clear_nothing_used
    \/ clear_unlock_type
    \/ \E u \in Users : on_add_user(u)
    \/ \E u \in Users : on_ban_user(u)
    \/ \E u \in Users : on_unban_user(u)
    \/ Tick

Spec == Init /\ [][Next]_vars

\* Scheduling: a function handed to asyncio.to_thread gets a thread of the
\* pool and runs, and the event loop resumes a coroutine whose await is done.
FairSpec ==
    /\ Spec
    /\ \A u \in Users, p \in Pools :
          /\ WF_vars(worker_read(u, p) \/ worker_raises(u, p))
          /\ WF_vars(worker_write(u, p))
          /\ WF_vars(allocate_return(u, p))
    /\ WF_vars(import_write)
    /\ WF_vars(clear_all_databases \/ clear_all_databases_raises)
    /\ WF_vars(delete_return)
    /\ WF_vars(get_user_used_types)
    /\ WF_vars(clear_nothing_used)
    /\ WF_vars(clear_unlock_type)

\* ------------------------------------------------- imports on their own
\* The import run without a concurrent worker thread: on_admin_file_received
\* collects new_values and _add_new_values reads, merges and writes in one
\* turn of the event loop.  imp keeps what the call was given and answered.

\* Rows of a pool file (header excluded) beyond which no further upload is
\* tried.
MaxRows == 3

\* Cells of the first column of an uploaded sheet.
ImportCells ==
    {NoCell, Str(<<"a">>), Str(<<"A">>), Str(<<"=", "=", " ", "a">>),
     Float(1, TRUE), Str(<<"V", "a", "l", "u", "e">>)}

ImportSheets == {<<c>> : c \in ImportCells} \cup (ImportCells \X ImportCells)

\* telegram holds one record, claimed by user 1; email is empty.
ImportInitFiles ==
    [p \in Pools |->
        IF p = "telegram"
            THEN <<Header, Row(<<"a">>, str_int(1), Username[1], strftime(0))>>
            ELSE <<Header>>]

ImportInit ==
    /\ files = ImportInitFiles
    /\ user_limits = [k \in {} |-> 0]
    /\ user_status = InitStatus
    /\ support_topics = {1, 2}
    /\ csv_lock = [holder |-> NoOp, waiters |-> <<>>]
    /\ processing_users = [p \in Pools |-> {}]
    /\ alloc = [s \in Slots |-> IdleAlloc]
    /\ imp = IdleImport
    /\ clr = IdleClear
    /\ unl = IdleUnlock
    /\ now = 0
    /\ calls = 0
    /\ last_ok = {}
    /\ overlap = {}
    /\ last_full = {}
    /\ refused = {}
    /\ reg = [u \in Users |-> "idle"]
    /\ sts = IdleStats
    /\ cts = IdleContacts
    /\ admins = {}
    /\ fsm = [u \in Users |-> "None"]
    /\ deleting = 0
    /\ asked = {}

\* on_admin_file_received for one pool, from the sheet to the answer.
on_admin_file_received(p, cells) ==
    /\ Len(files[p]) <= MaxRows
    /\ LET new_values == sheet_values(cells)
           res == add_new_values(read_csv(p), new_values)
           added == IF new_values = <<>> THEN 0 ELSE res.added
       IN  /\ files' = IF added > 0 THEN [files EXCEPT ![p] = res.rows] ELSE files
           /\ imp' = [pc |-> "done", p |-> p, cells |-> cells,
                      new_values |-> new_values, added |-> added]
    /\ UNCHANGED <<admins, fsm, deleting, reg, sts, cts, user_limits, user_status, support_topics, csv_lock,
                   processing_users, alloc, clr, unl, now, calls>>
    /\ History

ImportNext == \E p \in Pools, cells \in ImportSheets : on_admin_file_received(p, cells)

SpecImport == ImportInit /\ [][ImportNext]_vars

\* --------------------------------------------------- registration requests
\* The registration of new users with the moderation commands: nobody is
\* registered and no topic exists when the run starts.
StatusInit ==
    /\ files = InitFiles
    /\ user_limits = [k \in {} |-> 0]
    /\ user_status = [k \in {} |-> ""]
    /\ support_topics = {}
    /\ csv_lock = [holder |-> NoOp, waiters |-> <<>>]
    /\ processing_users = [p \in Pools |-> {}]
    /\ alloc = [s \in Slots |-> IdleAlloc]
    /\ imp = IdleImport
    /\ clr = IdleClear
    /\ unl = IdleUnlock
    /\ now = 0
    /\ calls = 0
    /\ last_ok = {}
    /\ overlap = {}
    /\ last_full = {}
    /\ refused = {}
    /\ reg = [u \in Users |-> "idle"]
    /\ sts = IdleStats
    /\ cts = IdleContacts
    /\ admins = {}
    /\ fsm = [u \in Users |-> "None"]
    /\ deleting = 0
    /\ asked = {}

\* on_send_request up to `await bot.create_forum_topic(...)`: a user with one
\* of the three statuses only gets an answer; otherwise the status is set to
\* pending.
on_send_request(u) ==
    /\ Call
    /\ reg[u] = "idle"
    /\ get_user_status(user_status, u) \notin {"approved", "pending", "banned"}
    /\ user_status' = set_user_status(user_status, u, "pending")
    /\ reg' = [reg EXCEPT ![u] = "topic"]
    /\ UNCHANGED <<admins, fsm, deleting, sts, cts, files, user_limits, support_topics, csv_lock,
                   processing_users, alloc, imp, clr, unl, now>>
    /\ History

\* on_send_request for a user that has a status: the handler answers and
\* returns.
on_send_request_known(u) ==
    /\ Call
    /\ get_user_status(user_status, u) \in {"approved", "pending", "banned"}
    /\ UNCHANGED <<admins, fsm, deleting, reg, sts, cts, files, user_limits, user_status, support_topics, csv_lock,
                   processing_users, alloc, imp, clr, unl, now>>
    /\ History

\* create_forum_topic returned: save_support_topic, then
\* `await bot.send_message(...)` into the topic.
request_topic_created(u) ==
    /\ reg[u] = "topic"
    /\ support_topics' = support_topics \cup {u}
    /\ reg' = [reg EXCEPT ![u] = "notify"]
    /\ UNCHANGED <<admins, fsm, deleting, sts, cts, files, user_limits, user_status, csv_lock,
                   processing_users, alloc, imp, clr, unl, now, calls>>
    /\ History

\* send_message returned: `await message.answer(...)` to the user.
request_notified(u) ==
    /\ reg[u] = "notify"
    /\ reg' = [reg EXCEPT ![u] = "answer"]
    /\ UNCHANGED <<admins, fsm, deleting, sts, cts, files, user_limits, user_status, support_topics, csv_lock,
                   processing_users, alloc, imp, clr, unl, now, calls>>
    /\ History

\* message.answer returned: the handler is done.
request_answered(u) ==
    /\ reg[u] = "answer"
    /\ reg' = [reg EXCEPT ![u] = "idle"]
    /\ UNCHANGED <<admins, fsm, deleting, sts, cts, files, user_limits, user_status, support_topics, csv_lock,
                   processing_users, alloc, imp, clr, unl, now, calls>>
    /\ History

\* One of the three awaits in the try block raised: the except branch calls
\* set_user_status(user_id, None).
request_failed(u) ==
    /\ reg[u] \in {"topic", "notify", "answer"}
    /\ user_status' = set_user_status(user_status, u, "unset")
    /\ reg' = [reg EXCEPT ![u] = "idle"]
    /\ UNCHANGED <<admins, fsm, deleting, sts, cts, files, user_limits, support_topics, csv_lock,
                   processing_users, alloc, imp, clr, unl, now, calls>>
    /\ History

StatusNext ==
    \/ \E u \in Users : on_send_request(u)
    \/ \E u \in Users : on_send_request_known(u)
    \/ \E u \in Users : request_topic_created(u)
    \/ \E u \in Users : request_notified(u)
    \/ \E u \in Users : request_answered(u)
    \/ \E u \in Users : request_failed(u)
    \/ \E u \in Users : on_add_user(u)
    \/ \E u \in Users : on_ban_user(u)
    \/ \E u \in Users : on_unban_user(u)

SpecStatus == StatusInit /\ [][StatusNext]_vars

\* -------------------------------------------------------------- statistics
\* /stats next to allocate requests.  The clock counts days here, so that the
\* three windows of _count_stats keep their lengths.
Day == 1
Week == 7
Month == 30

\* datetime.strptime(s, "%Y.%m.%d %H:%M:%S") succeeds (no ValueError).
strptime_ok(s) ==
    /\ Len(s) >= 2
    /\ Head(s) = "t"
    /\ \A i \in 2..Len(s) : IsDigit(s[i])

\* datetime.strptime(s, "%Y.%m.%d %H:%M:%S")
strptime(s) == int_digits(Tail(s), 0)

\* free of _count_stats: rows[1:] whose ID is empty.
stats_free(rows) == Cardinality({i \in 2..Len(rows) : rows[i].id = <<>>})

\* Mutant of issued_from: the lower bound of the window is exclusive.
RECURSIVE issued_from_exclusive(_, _, _)
issued_from_exclusive(rows, i, since) ==
    IF i > Len(rows) THEN 0
    ELSE (IF rows[i].date # <<>> /\ strptime_ok(rows[i].date) /\ strptime(rows[i].date) > since
             THEN 1 ELSE 0)
         + issued_from_exclusive(rows, i + 1, since)

\* One counter of the loop `for row in rows[1:]` of _count_stats: the rows
\* from row i on with a date that parses and is not before `since`.
RECURSIVE issued_from(_, _, _)
issued_from(rows, i, since) ==
    IF i > Len(rows) THEN 0
    ELSE (IF rows[i].date # <<>> /\ strptime_ok(rows[i].date) /\ strptime(rows[i].date) >= since
             THEN 1 ELSE 0)
         + issued_from(rows, i + 1, since)

\* The sum of field f over the entries of a list, as the loops of on_stats
\* add them up.
RECURSIVE sum_of(_, _)
sum_of(entries, f) ==
    IF entries = <<>> THEN 0 ELSE Head(entries)[f] + sum_of(Tail(entries), f)

\* The days on which the run can start.
StatsNows == {31, 32}

\* The pool files as a /stats run finds them: telegram records claimed on
\* days 0, 1, 24 and 30 and one unclaimed record; email with one record
\* claimed on day 31 and one unclaimed record.  User 2 holds three telegram
\* records, one batch after an unlock (StatsLimits).
StatsFiles ==
    [telegram |-> <<Header,
                    Row(<<"a">>, str_int(2), Username[2], strftime(0)),
                    Row(<<"b">>, str_int(2), Username[2], strftime(1)),
                    Row(<<"c">>, str_int(1), Username[1], strftime(24)),
                    Row(<<"d">>, str_int(2), Username[2], strftime(30)),
                    Row(<<"e">>, <<>>, <<>>, <<>>)>>,
     email |-> <<Header,
                 Row(<<"a">>, <<>>, <<>>, <<>>),
                 Row(<<"b">>, str_int(2), Username[2], strftime(31))>>]

\* user_limits.csv of that run: the unlock of user 2 in telegram.
StatsLimits == [k \in {<<2, "telegram">>} |-> BaseLimit["telegram"]]

StatsInit ==
    /\ files = StatsFiles
    /\ user_limits = StatsLimits
    /\ user_status = [u \in Users |-> "approved"]
    /\ support_topics = {1, 2}
    /\ csv_lock = [holder |-> NoOp, waiters |-> <<>>]
    /\ processing_users = [p \in Pools |-> {}]
    /\ alloc = [s \in Slots |-> IdleAlloc]
    /\ imp = IdleImport
    /\ clr = IdleClear
    /\ unl = IdleUnlock
    /\ now \in StatsNows
    /\ calls = 0
    /\ last_ok = {}
    /\ overlap = {}
    /\ last_full = {}
    /\ refused = {}
    /\ reg = [u \in Users |-> "idle"]
    /\ sts = IdleStats
    /\ cts = IdleContacts
    /\ admins = {}
    /\ fsm = [u \in Users |-> "None"]
    /\ deleting = 0
    /\ asked = {}

\* on_stats up to `await asyncio.to_thread(_count_stats)`.
on_stats ==
    /\ ~LoopBusy
    /\ Call
    /\ sts.pc \in {"idle", "done"}
    /\ sts' = [IdleStats EXCEPT !.pc = "scan", !.i = 1]
    /\ UNCHANGED <<admins, fsm, deleting, reg, cts, files, user_limits, user_status, support_topics, csv_lock,
                   processing_users, alloc, imp, clr, unl, now>>
    /\ History

\* Mutant of count_stats: the thread works only while csv_lock is free.
count_stats_waits ==
    /\ sts.pc = "scan"
    /\ csv_lock.holder = NoOp
    /\ LET rows == read_csv(PoolOrder[sts.i])
           t == IF sts.i = 1 THEN now ELSE sts.now
           free == <<[free |-> stats_free(rows), total |-> Len(rows) - 1]>>
           issued == <<[day |-> issued_from(rows, 2, t - Day),
                        week |-> issued_from(rows, 2, t - Week),
                        month |-> issued_from(rows, 2, t - Month)]>>
       IN  sts' = [sts EXCEPT !.pc = IF sts.i = Len(PoolOrder) THEN "ret" ELSE "scan",
                              !.i = @ + 1,
                              !.now = t,
                              !.free_stats = @ \o free,
                              !.issued_stats = @ \o issued,
                              !.read = Append(@, rows)]
    /\ UNCHANGED <<admins, fsm, deleting, reg, cts, files, user_limits, user_status, support_topics, csv_lock,
                   processing_users, alloc, imp, clr, unl, now, calls>>
    /\ History

\* _count_stats on its thread: utcnow() at its start, then one pool file read
\* and counted per step.  No lock is taken.
count_stats ==
    /\ sts.pc = "scan"
    /\ LET rows == read_csv(PoolOrder[sts.i])
           t == IF sts.i = 1 THEN now ELSE sts.now
           free == <<[free |-> stats_free(rows), total |-> Len(rows) - 1]>>
           issued == <<[day |-> issued_from(rows, 2, t - Day),
                        week |-> issued_from(rows, 2, t - Week),
                        month |-> issued_from(rows, 2, t - Month)]>>
       IN  sts' = [sts EXCEPT !.pc = IF sts.i = Len(PoolOrder) THEN "ret" ELSE "scan",
                              !.i = @ + 1,
                              !.now = t,
                              !.free_stats = @ \o free,
                              !.issued_stats = @ \o issued,
                              !.read = Append(@, rows)]
    /\ UNCHANGED <<admins, fsm, deleting, reg, cts, files, user_limits, user_status, support_topics, csv_lock,
                   processing_users, alloc, imp, clr, unl, now, calls>>
    /\ History

\* on_stats resumes with the two lists and adds up the totals of its answer.
stats_return ==
    /\ ~LoopBusy
    /\ sts.pc = "ret"
    /\ sts' = [sts EXCEPT !.pc = "done",
                          !.totals = [free |-> sum_of(sts.free_stats, "free"),
                                      all |-> sum_of(sts.free_stats, "total"),
                                      day |-> sum_of(sts.issued_stats, "day"),
                                      week |-> sum_of(sts.issued_stats, "week"),
                                      month |-> sum_of(sts.issued_stats, "month")]]
    /\ UNCHANGED <<admins, fsm, deleting, reg, cts, files, user_limits, user_status, support_topics, csv_lock,
                   processing_users, alloc, imp, clr, unl, now, calls>>
    /\ History

StatsNext ==
    \/ on_stats
    \/ count_stats
    \/ stats_return
    \/ \E u \in Users, p \in Pools : on_user_base_choice(u, p)
    \/ \E u \in Users, p \in Pools : worker_read(u, p)
    \/ \E u \in Users, p \in Pools : worker_write(u, p)
    \/ \E u \in Users, p \in Pools : allocate_return(u, p)

SpecStats == StatsInit /\ [][StatsNext]_vars

\* ------------------------------------------------------- the limits ledger
\* set_user_extra_limit and get_user_extra_limit on their own, with the
\* ledger going through user_limits.csv: written as text, parsed on load.

\* Largest one-digit extra limit tried; its tenfold is tried as well.
MaxExtra == 2

LedgerValues == (0..MaxExtra) \cup {10 * MaxExtra}

\* The rows set_user_extra_limit writes after the header, one per entry.
RECURSIVE limit_rows(_, _)
limit_rows(limits, keys) ==
    IF keys = {} THEN <<>>
    ELSE LET k == CHOOSE x \in keys : TRUE
         IN  <<[user_id |-> str_int(k[1]), base_type |-> k[2], extra_limit |-> str_int(limits[k])]>>
                 \o limit_rows(limits, keys \ {k})

\* user_limits.csv as set_user_extra_limit writes it: the header, then the
\* entries.
write_user_limits(limits) ==
    <<[user_id |-> <<"u">>, base_type |-> "base_type", extra_limit |-> <<"e">>]>>
        \o limit_rows(limits, DOMAIN limits)

RECURSIVE load_rows(_, _)
load_rows(rows, limits) ==
    IF rows = <<>> THEN limits
    ELSE LET r == Head(rows)
             key == <<int_of(r.user_id), r.base_type>>
         IN  IF int_ok(r.user_id) /\ int_ok(r.extra_limit)
                THEN load_rows(Tail(rows),
                               [k \in DOMAIN limits \cup {key} |->
                                   IF k = key THEN int_of(r.extra_limit) ELSE limits[k]])
                ELSE load_rows(Tail(rows), limits)

\* load_user_limits: the header is skipped, rows that do not parse are
\* dropped.
load_user_limits(rows) == load_rows(Tail(rows), [k \in {} |-> 0])

LedgerInit ==
    /\ files = InitFiles
    /\ user_limits = [k \in {} |-> 0]
    /\ user_status = InitStatus
    /\ support_topics = {1, 2}
    /\ csv_lock = [holder |-> NoOp, waiters |-> <<>>]
    /\ processing_users = [p \in Pools |-> {}]
    /\ alloc = [s \in Slots |-> IdleAlloc]
    /\ imp = IdleImport
    /\ clr = IdleClear
    /\ unl = IdleUnlock
    /\ now = 0
    /\ calls = 0
    /\ last_ok = {}
    /\ overlap = {}
    /\ last_full = {}
    /\ refused = {}
    /\ reg = [u \in Users |-> "idle"]
    /\ sts = IdleStats
    /\ cts = IdleContacts
    /\ admins = {}
    /\ fsm = [u \in Users |-> "None"]
    /\ deleting = 0
    /\ asked = {}

\* The ledger a later load_user_limits returns after
\* set_user_extra_limit(user_id, base_type, value).
ledger_after_set(limits, user_id, base_type, value) ==
    load_user_limits(write_user_limits(set_user_extra_limit(limits, user_id, base_type, value)))

\* A call of set_user_extra_limit(user_id, base_type, value).
set_extra(user_id, base_type, value) ==
    /\ user_limits' = ledger_after_set(user_limits, user_id, base_type, value)
    /\ UNCHANGED <<admins, fsm, deleting, reg, sts, cts, files, user_status, support_topics, csv_lock,
                   processing_users, alloc, imp, clr, unl, now, calls>>
    /\ History

LedgerNext == \E u \in Users, p \in Pools, v \in LedgerValues : set_extra(u, p, v)

SpecLedger == LedgerInit /\ [][LedgerNext]_vars

\* ------------------------------------------------------ per-user export
\* /contacts in a user's topic, next to allocate requests and uploads.

\* Mutant of contacts_from: every claimed row is exported.
RECURSIVE contacts_of_anyone(_, _, _)
contacts_of_anyone(rows, i, user_id) ==
    IF i > Len(rows) THEN <<>>
    ELSE (IF rows[i].id # <<>> /\ row_value(rows[i]) # <<>>
             THEN <<row_value(rows[i])>> ELSE <<>>)
         \o contacts_of_anyone(rows, i + 1, user_id)

\* The loop `for row in rows[1:]` of get_user_contacts, from row i on: the
\* normalised, non-empty values of the rows whose ID text is str(user_id).
RECURSIVE contacts_from(_, _, _)
contacts_from(rows, i, user_id) ==
    IF i > Len(rows) THEN <<>>
    ELSE (IF rows[i].id = str_int(user_id) /\ row_value(rows[i]) # <<>>
             THEN <<row_value(rows[i])>> ELSE <<>>)
         \o contacts_from(rows, i + 1, user_id)

\* The pool files as a /contacts run finds them: telegram with records
\* claimed by both users, stored as imported from the cells "a", "===b" and
\* "== d", and an unclaimed one; email unclaimed.
ContactsFiles ==
    [telegram |-> <<Header,
                    Row(<<"a">>, str_int(1), Username[1], strftime(0)),
                    Row(<<"=", "b">>, str_int(2), Username[2], strftime(0)),
                    Row(<<"c">>, <<>>, <<>>, <<>>),
                    Row(<<" ", "d">>, str_int(1), Username[1], strftime(0))>>,
     email |-> InitFiles["email"]]

ContactsInit ==
    /\ files = ContactsFiles
    /\ user_limits = [k \in {} |-> 0]
    /\ user_status = [u \in Users |-> "approved"]
    /\ support_topics = {1, 2}
    /\ csv_lock = [holder |-> NoOp, waiters |-> <<>>]
    /\ processing_users = [p \in Pools |-> {}]
    /\ alloc = [s \in Slots |-> IdleAlloc]
    /\ imp = IdleImport
    /\ clr = IdleClear
    /\ unl = IdleUnlock
    /\ now = 0
    /\ calls = 0
    /\ last_ok = {}
    /\ overlap = {}
    /\ last_full = {}
    /\ refused = {}
    /\ reg = [u \in Users |-> "idle"]
    /\ sts = IdleStats
    /\ cts = IdleContacts
    /\ admins = {}
    /\ fsm = [u \in Users |-> "None"]
    /\ deleting = 0
    /\ asked = {}

\* on_contacts_command in the topic of user u, up to
\* `await asyncio.to_thread(get_user_contacts, user_id)`.
on_contacts_command(u) ==
    /\ ~LoopBusy
    /\ Call
    /\ cts.pc \in {"idle", "done"}
    /\ u \in support_topics
    /\ cts' = [IdleContacts EXCEPT !.pc = "scan", !.u = u, !.i = 1]
    /\ UNCHANGED <<admins, fsm, deleting, reg, sts, files, user_limits, user_status, support_topics, csv_lock,
                   processing_users, alloc, imp, clr, unl, now>>
    /\ History

\* get_user_contacts on its thread: one pool file read per step; a pool
\* gets an entry in the result when the user has contacts in it.
get_user_contacts ==
    /\ cts.pc = "scan"
    /\ LET key == PoolOrder[cts.i]
           rows == read_csv(key)
           contacts == contacts_from(rows, 2, cts.u)
       IN  cts' = [cts EXCEPT !.pc = IF cts.i = Len(PoolOrder) THEN "ret" ELSE "scan",
                              !.i = @ + 1,
                              !.result = IF contacts # <<>>
                                            THEN Append(@, [key |-> key, contacts |-> contacts])
                                            ELSE @,
                              !.read = Append(@, rows)]
    /\ UNCHANGED <<admins, fsm, deleting, reg, sts, files, user_limits, user_status, support_topics, csv_lock,
                   processing_users, alloc, imp, clr, unl, now, calls>>
    /\ History

\* on_contacts_command resumes with the result and sends the workbook (or the
\* notice that nothing was handed out).
contacts_return ==
    /\ ~LoopBusy
    /\ cts.pc = "ret"
    /\ cts' = [cts EXCEPT !.pc = "done"]
    /\ UNCHANGED <<admins, fsm, deleting, reg, sts, files, user_limits, user_status, support_topics, csv_lock,
                   processing_users, alloc, imp, clr, unl, now, calls>>
    /\ History

ContactsNext ==
    \/ \E u \in Users : on_contacts_command(u)
    \/ get_user_contacts
    \/ contacts_return
    \/ \E u \in Users, p \in Pools : on_user_base_choice(u, p)
    \/ \E u \in Users, p \in Pools : worker_read(u, p)
    \/ \E u \in Users, p \in Pools : worker_write(u, p)
    \/ \E u \in Users, p \in Pools : allocate_return(u, p)
    \/ \E p \in Pools, cells \in Sheets : import_read(p, cells)
    \/ import_write

SpecContacts == ContactsInit /\ [][ContactsNext]_vars

\* ================================================================ claims
\* Records of `rows` (header excluded) claimed by user u.
ClaimedRows(rows, u) == {i \in 2..Len(rows) : rows[i].id = str_int(u)}

\* Unclaimed records of `rows` (header excluded).
UnclaimedRows(rows) == {i \in 2..Len(rows) : rows[i].id = <<>>}

claimed_count(p, u) == Cardinality(ClaimedRows(files[p], u))

total_allowance(u, p) == BaseLimit[p] + get_user_extra_limit(user_limits, u, p)

\* C1: in every reachable state, every identity holds at most
\* base_limit + extra_limit records of every pool.
C1_QuotaInvariant ==
    \A p \in Pools, u \in Users : claimed_count(p, u) <= total_allowance(u, p)

\* C1 witness: after an unlock and a further allocate an identity holds its
\* full, raised allowance.
C1_Witness ==
    \E p \in Pools, u \in Users :
        /\ get_user_extra_limit(user_limits, u, p) > 0
        /\ claimed_count(p, u) = total_allowance(u, p)

\* C2: no two concurrent allocate calls on one pool claim the same record:
\* a call never marks a row that another call marked while this call was
\* already in flight.
C2_DisjointClaims ==
    \A s \in Slots :
        alloc[s].pc \in {"write", "ret"} =>
            \A i \in Marks(alloc[s]) : <<s[2], i, s[1]>> \notin overlap

\* C3: a claimed record is never changed: under allocate, import, unlock
\* (every step but those of clear-all) a row with claimed_by set keeps its
\* value, claimed_by, label and claimed_at.
C3_WriteOnce ==
    [][clr.pc = "run" \/
       \A p \in Pools : \A i \in 2..Len(files[p]) :
           files[p][i].id # <<>> => (i <= Len(files'[p]) /\ files'[p][i] = files[p][i])]_vars

\* Mutating operations inside their load-modify-persist section: an allocate
\* worker between its _read_csv and its _write_csv, _add_new_values between
\* its read and its write, clear_all_databases between its first and last
\* file.
InSection ==
    {AllocOp(s[1], s[2]) : s \in {t \in Slots : alloc[t].pc = "write"}}
        \cup (IF imp.pc = "write" THEN {[op |-> "import", u |-> 0, p |-> imp.p]} ELSE {})
        \cup (IF clr.pc = "run" THEN {ClearOp} ELSE {})

\* C4: every mutating operation runs its load-modify-persist under the one
\* gate, so at no time are two of them inside that section.
C4_OneGate == Cardinality(InSection) <= 1

\* The step in which the worker of slot s loads the pool file and decides.
Loads(s) == alloc[s].pc = "run" /\ alloc'[s].pc # "run" /\ alloc'[s].res.reason # "error"

\* C5: when the remaining allowance of the call exceeds the number of
\* unclaimed records it loaded, allocate returns not_enough with no values,
\* writes nothing and leaves the pool as it was.
C5_AllOrNothing ==
    [][\A s \in Slots :
          /\ Loads(s) =>
                LET rows == files[s[2]]
                    remaining == alloc[s].total_allowed - Cardinality(ClaimedRows(rows, s[1]))
                IN  remaining > Cardinality(UnclaimedRows(rows)) =>
                        /\ alloc'[s].pc = "ret"
                        /\ alloc'[s].res.reason = "not_enough"
                        /\ alloc'[s].res.taken = <<>>
                        /\ files' = files
          /\ alloc[s].pc = "ret" => alloc'[s].pc \in {"ret", "idle"}]_vars

\* C5 witness: a call has returned not_enough from a pool that had unclaimed
\* records, fewer than its remaining allowance.
C5_Witness ==
    \E s \in Slots :
        /\ alloc[s].pc = "ret"
        /\ alloc[s].res.reason = "not_enough"
        /\ UnclaimedRows(alloc[s].loaded) # {}
        /\ files[s[2]] = alloc[s].loaded

\* C6: a successful allocate returns, and marks, exactly
\* remaining = allowance - already_claimed records, never fewer, never none.
C6_ExactBatch ==
    \A s \in Slots :
        (alloc[s].pc \in {"write", "ret"} /\ alloc[s].res.reason = "None") =>
            LET remaining == alloc[s].total_allowed
                                - Cardinality(ClaimedRows(alloc[s].loaded, s[1]))
            IN  /\ remaining > 0
                /\ Len(alloc[s].res.taken) = remaining
                /\ Cardinality(Marks(alloc[s])) = remaining

\* Unclaimed records of `rows` with a non-empty normalised value.
FreeNonEmpty(rows) == {i \in UnclaimedRows(rows) : row_value(rows[i]) # <<>>}

\* The k-th smallest element of a set of row numbers.
KthOf(M, k) == CHOOSE i \in M : Cardinality({j \in M : j < i}) = k - 1

MinOf(a, b) == IF a < b THEN a ELSE b

\* C7: a successful allocate claims in storage order: the rows it marks are
\* the first `remaining` unclaimed non-empty records it loaded (all of them
\* when there are fewer), the values it returns are theirs in stored order,
\* and no unclaimed non-empty record precedes a record it claimed.
C7_StorageOrder ==
    \A s \in Slots :
        (alloc[s].pc \in {"write", "ret"} /\ alloc[s].res.reason = "None") =>
            LET a == alloc[s]
                free == FreeNonEmpty(a.loaded)
                M == Marks(a)
                remaining == a.total_allowed - Cardinality(ClaimedRows(a.loaded, s[1]))
            IN  /\ M \subseteq free
                /\ Cardinality(M) = MinOf(remaining, Cardinality(free))
                /\ \A i \in free \ M : \A j \in M : j < i
                /\ \A i \in FreeNonEmpty(a.res.rows) : \A j \in M : j < i
                /\ Len(a.res.taken) = Cardinality(M)
                /\ \A k \in 1..Len(a.res.taken) :
                       a.res.taken[k] = row_value(a.loaded[KthOf(M, k)])
                /\ \A i \in M : a.res.rows[i].id = str_int(s[1])

\* C7 witness: a call has written a batch of two that skips an unclaimed
\* record with an empty normalised value.
C7_Witness ==
    \E s \in Slots :
        /\ alloc[s].pc = "ret"
        /\ alloc[s].res.reason = "None"
        /\ Len(alloc[s].res.taken) = 2
        /\ \E i \in UnclaimedRows(alloc[s].res.rows) : \E j \in Marks(alloc[s]) : i < j

\* C8: an identity that holds its allowance gets already_got, no values and an
\* unchanged pool; and the call that immediately follows a successful one of
\* the same identity and pool gets already_got.
C8_RepeatExhausted ==
    [][\A s \in Slots :
          Loads(s) =>
              /\ claimed_count(s[2], s[1]) >= total_allowance(s[1], s[2]) =>
                    /\ alloc'[s].res.reason = "already_got"
                    /\ alloc'[s].res.taken = <<>>
                    /\ alloc'[s].pc = "ret"
                    /\ files' = files
              /\ s \in last_ok => alloc'[s].res.reason = "already_got"]_vars

\* C9: whenever a record is written as claimed by an identity, the identity's
\* status is approved.
C9_OnlyApproved ==
    [][\A s \in Slots :
          (alloc[s].pc = "write" /\ alloc'[s].pc = "ret") =>
              is_user_approved(user_status, s[1])]_vars

\* C10: when unlock finds the identity's allowance in a pool used up, it sets
\* extra_limit to the claimed count, so the allowance becomes claimed + base.
C10_UnlockOneBatch ==
    [][(unl.pc = "apply" /\ unl.used # <<>> /\ unl' # unl) =>
          LET key == unl.used[unl.i]
              had == claimed_count(key, unl.u)
          IN  had >= total_allowance(unl.u, key) =>
                  /\ get_user_extra_limit(user_limits', unl.u, key) = had
                  /\ BaseLimit[key] + get_user_extra_limit(user_limits', unl.u, key)
                        = had + BaseLimit[key]
                  /\ files' = files]_vars

\* C10 witness: unlock has set an identity's extra_limit to the number of
\* records it holds, its whole former allowance.
C10_Witness ==
    \E p \in Pools, u \in Users :
        /\ <<u, p>> \in DOMAIN user_limits
        /\ user_limits[<<u, p>>] = claimed_count(p, u)
        /\ claimed_count(p, u) >= BaseLimit[p]

\* A step of the unlock command, and the identity it unlocks.
UnlockStep == unl' # unl
UnlockUser == IF unl.pc = "idle" THEN unl'.u ELSE unl.u

\* C11: a step of unlock for identity U leaves extra_limit(U, P) unchanged
\* for every pool P in which U holds fewer records than its allowance (pools
\* without claims of U included), changes no pool record and changes no
\* other identity's extra limit.
C11_UnlockNoOp ==
    [][UnlockStep =>
          /\ files' = files
          /\ \A p \in Pools :
                claimed_count(p, UnlockUser) < total_allowance(UnlockUser, p) =>
                    get_user_extra_limit(user_limits', UnlockUser, p)
                        = get_user_extra_limit(user_limits, UnlockUser, p)
          /\ \A u \in Users \ {UnlockUser} : \A p \in Pools :
                get_user_extra_limit(user_limits', u, p)
                    = get_user_extra_limit(user_limits, u, p)]_vars

\* C11 witness: unlock is at a pool in which the identity holds records, fewer
\* than its allowance, after an earlier unlock raised that allowance.
C11_Witness ==
    /\ unl.pc = "apply"
    /\ unl.used # <<>>
    /\ LET key == unl.used[unl.i]
       IN  /\ claimed_count(key, unl.u) > 0
           /\ claimed_count(key, unl.u) < total_allowance(unl.u, key)
           /\ get_user_extra_limit(user_limits, unl.u, key) > 0

\* C12: the allocate that follows an unlock of an exhausted identity (its
\* extra_limit equals its claimed count), with at least base_limit unclaimed
\* non-empty records in the pool, succeeds with exactly base_limit values
\* and brings the claimed count to the previous count plus base_limit; the
\* allocate after that one returns already_got.
C12_UnlockThenAllocate ==
    [][\A s \in Slots :
          /\ Loads(s) =>
                LET rows == files[s[2]]
                    had == Cardinality(ClaimedRows(rows, s[1]))
                IN  /\ ( /\ had > 0
                         /\ get_user_extra_limit(user_limits, s[1], s[2]) = had
                         /\ alloc[s].total_allowed = total_allowance(s[1], s[2])
                         /\ Cardinality(FreeNonEmpty(rows)) >= BaseLimit[s[2]] ) =>
                            /\ alloc'[s].pc = "write"
                            /\ alloc'[s].res.reason = "None"
                            /\ Len(alloc'[s].res.taken) = BaseLimit[s[2]]
                            /\ Cardinality(ClaimedRows(alloc'[s].res.rows, s[1]))
                                  = had + BaseLimit[s[2]]
                    /\ s \in last_full => alloc'[s].res.reason = "already_got"
          /\ (alloc[s].pc = "write" /\ alloc'[s].pc = "ret") =>
                files'[s[2]] = alloc[s].res.rows]_vars

\* C12 witness: after an unlock and the full batch that followed it, the
\* next call of the identity has been answered already_got.
C12_Witness ==
    \E s \in Slots :
        /\ alloc[s].pc = "ret"
        /\ alloc[s].res.reason = "already_got"
        /\ get_user_extra_limit(user_limits, s[1], s[2]) > 0
        /\ claimed_count(s[2], s[1])
              = get_user_extra_limit(user_limits, s[1], s[2]) + BaseLimit[s[2]]
        /\ s \in last_full

\* C13: for every identity and pool, base_limit + extra_limit never decreases
\* in any step, extra_limit is never negative, and the ledger changes only in
\* a step of the manager's unlock loop.
C13_AllowanceMonotone ==
    [][/\ \A u \in Users, p \in Pools :
             /\ total_allowance(u, p)' >= total_allowance(u, p)
             /\ get_user_extra_limit(user_limits', u, p) >= 0
       /\ user_limits' # user_limits => (unl.pc = "apply" /\ unl' # unl)]_vars

\* C13 witness: an identity's extra limit has been raised twice.
C13_Witness ==
    \E u \in Users, p \in Pools :
        get_user_extra_limit(user_limits, u, p) >= 2 * BaseLimit[p]

\* Values of the records of `rows`, trimmed and lower-cased.
PoolValues(rows) == {lower(strip(rows[i].v)) : i \in 2..Len(rows)}

\* The normalised value of candidate i of a list, lower-cased.
CandKey(new_values, i) == lower(clean_value(Str(new_values[i])))

\* Candidates of a list whose normalised value is not empty.
NonEmptyCands(new_values) ==
    {i \in 1..Len(new_values) : truthy(clean_value(Str(new_values[i])))}

\* The step in which an import is handled.
ImportStep == imp'.pc = "done" /\ (imp' # imp \/ files' # files)

\* C14: an import returns added_count = N, the number of distinct normalised
\* values of the list that the pool does not hold yet, and importing the same
\* list again right away returns 0 and leaves the pool unchanged.
C14_ImportIdempotent ==
    [][ImportStep =>
          LET p == imp'.p
              cand == imp'.new_values
              N == Cardinality({CandKey(cand, i) : i \in NonEmptyCands(cand)}
                                  \ PoolValues(files[p]))
              again == add_new_values(files'[p], cand)
          IN  /\ imp'.added = N
              /\ again.added = 0
              /\ again.rows = files'[p]]_vars

\* C15: no two records of a pool, claimed or unclaimed, have values that are
\* equal ignoring case.
C15_CaseInsensitiveUnique ==
    \A p \in Pools : \A i, j \in 2..Len(files[p]) :
        i # j => lower(files[p][i].v) # lower(files[p][j].v)

\* Candidates that are the first of their group (normalised values equal
\* ignoring case) in a list, the group not being in the pool `rows`.
FirstOfNewGroups(rows, new_values) ==
    {i \in NonEmptyCands(new_values) :
        /\ CandKey(new_values, i) \notin PoolValues(rows)
        /\ \A j \in NonEmptyCands(new_values) :
              j < i => CandKey(new_values, j) # CandKey(new_values, i)}

C17_ImportOnlyAppends ==
    [][((imp.pc = "write" /\ imp'.pc = "idle") \/ ImportStep) =>
          LET p == IF imp.pc = "write" THEN imp.p ELSE imp'.p
              old == files[p]
              new == files'[p]
          IN  /\ Len(new) >= Len(old)
              /\ SubSeq(new, 1, Len(old)) = old
              /\ \A k \in (Len(old) + 1)..Len(new) :
                    new[k].id = <<>> /\ new[k].name = <<>> /\ new[k].date = <<>>
              /\ \A q \in Pools \ {p} : files'[q] = files[q]]_vars
\* The places of operation op in csv_lock: as holder and in the queue.
LockPlaces(op) ==
    (IF csv_lock.holder = op THEN {0} ELSE {})
        \cup {k \in 1..Len(csv_lock.waiters) : csv_lock.waiters[k] = op}

\* C18: while a request for (U, P) is in flight its marker is set, a second
\* request for (U, P) starts no call, takes no place at the gate and leaves
\* the pools and the call in flight alone; so (U, P) holds or waits for the
\* gate at most once.
C18_InFlightGuard ==
    [][\A s \in Slots :
          /\ alloc[s].pc # "idle" => s[1] \in processing_users[s[2]]
          /\ Cardinality(LockPlaces(AllocOp(s[1], s[2]))) <= 1
          /\ alloc[s].pc \in {"wait", "run", "write"} =>
                Cardinality(LockPlaces(AllocOp(s[1], s[2]))) = 1
          /\ (alloc[s].pc # "idle" /\ alloc'[s].pc \in {"wait", "run"}) =>
                (alloc[s].pc \in {"wait", "run"} /\ alloc'[s].total_allowed = alloc[s].total_allowed)
          /\ (s \in refused' /\ s \notin refused) =>
                /\ files' = files
                /\ csv_lock' = csv_lock
                /\ alloc' = alloc]_vars

\* C18 witness: a request waits for the gate and a second request for the
\* same user and pool has been turned away.
C18_Witness ==
    \E s \in Slots : alloc[s].pc = "wait" /\ s \in refused
\* C19: the in-flight marker of (U, P) is discarded on every way out of the
\* guarded allocate (success, already_got, not_enough, an exception of the
\* worker): when no request for (U, P) is in flight the marker is absent,
\* and a request is turned away only while one is in flight.
C19_MarkerCleared ==
    [][\A s \in Slots :
          /\ alloc[s].pc = "idle" => s[1] \notin processing_users[s[2]]
          /\ (alloc[s].pc = "ret" /\ alloc'[s].pc # "ret") =>
                /\ alloc[s].res.reason \in {"None", "already_got", "not_enough", "error"}
                /\ alloc'[s].pc = "idle"
                /\ s[1] \notin processing_users'[s[2]]
          /\ (s \in refused' /\ s \notin refused) => alloc[s].pc # "idle"]_vars

\* C19 witness: after a successful call of the user for the pool returned, a
\* later request of the same user for the pool was admitted and its worker
\* raised.
C19_Witness ==
    \E s \in Slots :
        /\ alloc[s].pc = "ret"
        /\ alloc[s].res.reason = "error"
        /\ claimed_count(s[2], s[1]) > 0
\* The operations that take csv_lock.
GateOps == {AllocOp(s[1], s[2]) : s \in Slots} \cup {ClearOp}

\* C20: no operation holds csv_lock and waits for it as well; every
\* operation that holds it releases it, also when its worker raises; every
\* request that waits for it gets it and gets an outcome.
C20_NoDeadlock ==
    /\ [](\A op \in GateOps : ~(csv_lock.holder = op /\ LockPlaces(op) # {0}))
    /\ []<>(csv_lock.holder = NoOp)
    /\ \A s \in Slots : (alloc[s].pc = "wait") ~> (alloc[s].pc = "ret")

\* C20 witness: a request waits for the gate behind another waiting
\* operation.
C20_Witness ==
    \E s \in Slots :
        /\ alloc[s].pc = "wait"
        /\ Len(csv_lock.waiters) >= 2
        /\ csv_lock.waiters[Len(csv_lock.waiters)] = AllocOp(s[1], s[2])

\* The statuses an identity can have; "unset" stands for no status.
Statuses == {"pending", "approved", "banned"}

\* The status transitions of the lifecycle.
Lifecycle ==
    {<<"unset", "pending">>, <<"pending", "approved">>, <<"pending", "banned">>,
     <<"banned", "approved">>, <<"approved", "banned">>}

\* C21: every stored status is pending, approved or banned; a status changes
\* only from unset to pending, from pending to approved or banned, and
\* between banned and approved; an identity that has a status never returns
\* to unset or to pending, also when sending its registration request fails.
C21_StatusLifecycle ==
    [][\A u \in Users :
          LET old == get_user_status(user_status, u)
              new == get_user_status(user_status', u)
          IN  /\ new \in Statuses \cup {"unset"}
              /\ new # old => <<old, new>> \in Lifecycle]_vars

\* C22: every record of every pool is either unclaimed, with claimed_by,
\* label and claimed_at all empty, or claimed, with claimed_by and claimed_at
\* both set (the label set or empty).
C22_ClaimFields ==
    \A p \in Pools : \A i \in 2..Len(files[p]) :
        LET r == files[p][i]
        IN  \/ r.id = <<>> /\ r.name = <<>> /\ r.date = <<>>
            \/ r.id # <<>> /\ r.date # <<>>

\* C22 witness: a pool holds a record claimed by a user without a username
\* (empty label) and a record claimed by a user with one.
C22_Witness ==
    \E p \in Pools : \E i, j \in 2..Len(files[p]) :
        /\ files[p][i].id # <<>> /\ files[p][i].name = <<>>
        /\ files[p][j].id # <<>> /\ files[p][j].name # <<>>

\* C23: allocate leaves records with an empty normalised value out
\* everywhere: it never marks one as claimed, and the free count its supply
\* check compares with the remaining allowance does not count them, so the
\* call is answered not_enough exactly when the remaining allowance exceeds
\* the number of unclaimed records with a non-empty value.
C23_EmptyValuesExcluded ==
    [][\A s \in Slots :
          Loads(s) =>
              LET rows == files[s[2]]
                  remaining == alloc[s].total_allowed - count_user_records(rows, s[1])
              IN  /\ \A i \in Marks(alloc'[s]) : row_value(rows[i]) # <<>>
                  /\ remaining > 0 =>
                        (alloc'[s].res.reason = "not_enough"
                            <=> remaining > Cardinality(FreeNonEmpty(rows)))]_vars

\* Records of `rows` (header excluded) with a claimant.
AllClaimedRows(rows) == {i \in 2..Len(rows) : rows[i].id # <<>>}

\* Records of `rows` claimed at or after instant `since`.
ClaimedSince(rows, since) ==
    {i \in AllClaimedRows(rows) : strptime(rows[i].date) >= since}

\* C24: the figures of a statistics run are exact for the pool states it
\* read: total is the number of records, free the number of unclaimed ones,
\* free plus claimed is total; each window count is the number of records
\* claimed at or after now - w, so day <= week <= month <= claimed; and the
\* aggregate figures are the sums over the pools.
C24_StatsExact ==
    /\ \A k \in 1..Len(sts.read) :
          LET rows == sts.read[k]
              f == sts.free_stats[k]
              n == sts.issued_stats[k]
          IN  /\ f.total = Len(rows) - 1
              /\ f.free = Cardinality(UnclaimedRows(rows))
              /\ f.free + Cardinality(AllClaimedRows(rows)) = f.total
              /\ n.day = Cardinality(ClaimedSince(rows, sts.now - Day))
              /\ n.week = Cardinality(ClaimedSince(rows, sts.now - Week))
              /\ n.month = Cardinality(ClaimedSince(rows, sts.now - Month))
              /\ n.day <= n.week /\ n.week <= n.month
              /\ n.month <= Cardinality(AllClaimedRows(rows))
    /\ sts.pc = "done" =>
          /\ Len(sts.read) = Len(PoolOrder)
          /\ sts.totals.all = Cardinality(UNION {{<<k, i>> : i \in 2..Len(sts.read[k])} : k \in 1..Len(sts.read)})
          /\ sts.totals.free = Cardinality(UNION {{<<k, i>> : i \in UnclaimedRows(sts.read[k])} : k \in 1..Len(sts.read)})
          /\ sts.totals.day = Cardinality(UNION {{<<k, i>> : i \in ClaimedSince(sts.read[k], sts.now - Day)} : k \in 1..Len(sts.read)})
          /\ sts.totals.week = Cardinality(UNION {{<<k, i>> : i \in ClaimedSince(sts.read[k], sts.now - Week)} : k \in 1..Len(sts.read)})
          /\ sts.totals.month = Cardinality(UNION {{<<k, i>> : i \in ClaimedSince(sts.read[k], sts.now - Month)} : k \in 1..Len(sts.read)})

\* C24 witness: a run on day 31 is done; of the four claimed telegram records
\* it counted the one of day 30 in the day window, the one of day 24 in the
\* week window too, the one of day 1 in the month window too, and left the
\* one of day 0 out.
C24_Witness ==
    /\ sts.pc = "done"
    /\ sts.now = 31
    /\ sts.issued_stats[1] = [day |-> 1, week |-> 2, month |-> 3]
    /\ Cardinality(AllClaimedRows(sts.read[1])) = 4

\* A step of a statistics request.
StatsStep == sts' # sts

\* C25: a statistics request only reads: its steps change no pool record, no
\* quota entry, no status and nothing of the gate or of the calls waiting at
\* it; and it never waits for the gate: its thread and its return can run
\* whoever holds csv_lock.
C25_StatsReadOnly ==
    [][/\ StatsStep =>
             /\ files' = files
             /\ user_limits' = user_limits
             /\ user_status' = user_status
             /\ csv_lock' = csv_lock
             /\ alloc' = alloc
             /\ processing_users' = processing_users
       /\ sts.pc = "scan" => ENABLED count_stats
       /\ sts.pc = "ret" => ENABLED stats_return]_vars

\* C25 witness: a statistics run is done that read telegram, and then email,
\* after the worker of an allocate wrote telegram and before that allocate
\* gave csv_lock back.
C25_Witness ==
    /\ sts.pc = "done"
    /\ \E u \in Users :
          /\ alloc[<<u, "telegram">>].pc = "ret"
          /\ alloc[<<u, "telegram">>].res.reason = "None"
          /\ csv_lock.holder = AllocOp(u, "telegram")
          /\ sts.read[1] = alloc[<<u, "telegram">>].res.rows
          /\ sts.read[1] # alloc[<<u, "telegram">>].loaded

\* C26: when clear-all completes, every defined pool has no records, and the
\* set of pools is as before; clear-all runs while it holds csv_lock, so no
\* allocate worker is between its load and its persist meanwhile.
C26_ClearAllEmpties ==
    [][/\ (clr.pc = "run" /\ clr'.pc = "ret" /\ clr'.count = Len(PoolOrder)) =>
             /\ DOMAIN files' = Pools
             /\ \A p \in Pools : files'[p] = <<Header>>
       /\ clr.pc = "run" =>
             /\ csv_lock.holder = ClearOp
             /\ \A s \in Slots : alloc[s].pc \notin {"run", "write"}]_vars

\* C27: get_extra is 0 for a pair without an entry; after set_extra(U, P, v)
\* get_extra(U, P) is v whatever it was before, setting the same v again
\* changes nothing, and the entries of all other pairs are as before.
C27_LedgerOverwrite ==
    [][/\ \A s \in Slots :
             s \notin DOMAIN user_limits => get_user_extra_limit(user_limits, s[1], s[2]) = 0
       /\ \A s \in Slots, v \in LedgerValues :
             user_limits' = ledger_after_set(user_limits, s[1], s[2], v) =>
                 /\ get_user_extra_limit(user_limits', s[1], s[2]) = v
                 /\ ledger_after_set(user_limits', s[1], s[2], v) = user_limits'
                 /\ \A t \in Slots \ {s} :
                       /\ get_user_extra_limit(user_limits', t[1], t[2])
                             = get_user_extra_limit(user_limits, t[1], t[2])
                       /\ t \in DOMAIN user_limits' <=> t \in DOMAIN user_limits]_vars

\* C27 witness: an entry set to a two-digit value was overwritten with a
\* smaller one while another pair keeps its entry and a third has none.
C27_Witness ==
    \E s, t, r \in Slots :
        /\ s # t
        /\ s \in DOMAIN user_limits /\ user_limits[s] = 10 * MaxExtra
        /\ t \in DOMAIN user_limits /\ user_limits[t] = 1
        /\ r \notin DOMAIN user_limits

\* The values exported for the k-th pool that a /contacts run read: the
\* entry of the pool in the result, none when the pool has no entry.
Exported(k) ==
    LET hits == {j \in 1..Len(cts.result) : cts.result[j].key = PoolOrder[k]}
    IN  IF hits = {} THEN <<>> ELSE cts.result[CHOOSE j \in hits : TRUE].contacts

\* C28: for every pool an export for identity U read, the exported values
\* are exactly the (normalised) values of the records claimed by U, one per
\* record and in storage order, so no record that is unclaimed or claimed by
\* another identity contributes; their number is the claimed count that the
\* quota check computes for U from the same rows; and a pool has at most
\* one entry in the result.
C28_ExportExact ==
    \A k \in 1..Len(cts.read) :
        LET rows == cts.read[k]
            mine == ClaimedRows(rows, cts.u)
            out == Exported(k)
        IN  /\ Len(out) = Cardinality(mine)
            /\ \A j \in 1..Len(out) : out[j] = row_value(rows[KthOf(mine, j)])
            /\ Len(out) = count_user_records(rows, cts.u)
            /\ Cardinality({j \in 1..Len(cts.result) : cts.result[j].key = PoolOrder[k]}) <= 1

\* C28 witness: an export for user 1 is done: from telegram, where user 2
\* holds a record between those of user 1 and one record is unclaimed, it
\* has the two values of user 1, and from email the value that user 1
\* claimed after the run started.
C28_Witness ==
    /\ cts.pc = "done"
    /\ cts.u = 1
    /\ Exported(1) = <<<<"a">>, <<"d">>>>
    /\ Len(Exported(2)) = 1
    /\ ClaimedRows(cts.read[1], 2) # {}
    /\ UnclaimedRows(cts.read[1]) # {}

\* C29: claims survive an import that runs next to the allocate: once the
\* worker of an allocate has persisted and no import is between its read and
\* its write, every record the allocate marked for its identity is stored in
\* the pool as claimed by that identity, with the value that was returned.
C29_ClaimsSurviveImport ==
    \A s \in Slots :
        (alloc[s].pc = "ret" /\ alloc[s].res.reason = "None" /\ imp.pc = "idle") =>
            \A i \in Marks(alloc[s]) :
                /\ i <= Len(files[s[2]])
                /\ files[s[2]][i].id = str_int(s[1])
                /\ row_value(files[s[2]][i]) = row_value(alloc[s].loaded[i])

\* C30: values an import added survive an allocate in flight: the persist of
\* an allocate keeps every record the pool holds at that moment, so it does
\* not drop the records that an import appended after the allocate loaded.
C30_ImportSurvivesAllocate ==
    [][\A s \in Slots :
          (alloc[s].pc = "write" /\ alloc'[s].pc = "ret") =>
              /\ Len(files'[s[2]]) >= Len(files[s[2]])
              /\ \A i \in 2..Len(files[s[2]]) : files'[s[2]][i].v = files[s[2]][i].v]_vars

\* C31: the allowance an allocate compares with the claimed count inside the
\* gate is base_limit + extra_limit as stored at that moment: a call is
\* never answered already_got while the identity holds fewer records than
\* its stored allowance, also when an unlock ran after the request started.
C31_CurrentAllowance ==
    [][\A s \in Slots :
          Loads(s) =>
              /\ alloc[s].total_allowed = total_allowance(s[1], s[2])
              /\ claimed_count(s[2], s[1]) < total_allowance(s[1], s[2]) =>
                    alloc'[s].res.reason # "already_got"]_vars

\* C32: import and allocate normalise alike: every record of a pool filled
\* by import has a non-empty value under the normalisation of allocate, which
\* is the stored value itself; so the free count of the supply check is the
\* number of claimable records, and no two records deliver the same value
\* ignoring case.
C32_SameNormalisation ==
    \A p \in Pools :
        /\ \A i \in 2..Len(files[p]) :
              /\ row_value(files[p][i]) # <<>>
              /\ row_value(files[p][i]) = files[p][i].v
        /\ free_count(files[p]) = Cardinality(FreeNonEmpty(files[p]))
        /\ \A i, j \in 2..Len(files[p]) :
              i # j => lower(row_value(files[p][i])) # lower(row_value(files[p][j]))

\* Records of `rows` claimed by user u that `before` does not show as
\* claimed by u.
NewlyClaimed(rows, before, u) ==
    {i \in ClaimedRows(rows, u) : i > Len(before) \/ before[i].id # str_int(u)}

\* C33: the values an allocate returns are, one for one and in order, the
\* values of the records its persist newly stores as claimed by the caller;
\* every returned value is non-empty; a call answered already_got or
\* not_enough, and a call that writes nothing, returns no value.
C33_ReturnedMatchPersisted ==
    [][\A s \in Slots :
          /\ (alloc[s].pc = "write" /\ alloc'[s].pc = "ret") =>
                LET a == alloc[s]
                    M == NewlyClaimed(files'[s[2]], a.loaded, s[1])
                IN  /\ alloc'[s].res.taken = a.res.taken
                    /\ Len(a.res.taken) = Cardinality(M)
                    /\ \A k \in 1..Len(a.res.taken) :
                          /\ a.res.taken[k] = row_value(files'[s[2]][KthOf(M, k)])
                          /\ a.res.taken[k] # <<>>
          /\ Loads(s) =>
                /\ alloc'[s].res.reason \in {"already_got", "not_enough"} =>
                      alloc'[s].res.taken = <<>> /\ alloc'[s].pc = "ret"
                /\ alloc'[s].pc = "ret" => alloc'[s].res.taken = <<>>
                /\ alloc'[s].pc = "ret" => files' = files]_vars

\* C33 witness: a call of a user that already held a record of the pool has
\* persisted a further record and returns its value.
C33_Witness ==
    \E s \in Slots :
        /\ alloc[s].pc = "ret"
        /\ alloc[s].res.reason = "None"
        /\ Len(alloc[s].res.taken) = 1
        /\ ClaimedRows(alloc[s].loaded, s[1]) # {}
        /\ files[s[2]] = alloc[s].res.rows

\* C34: an allocate for (U, P) changes only what it claims: in every step of
\* the call the records of P keep their number, order and values, records
\* that were claimed keep their claim fields, the other pools, the ledger
\* and the statuses are unchanged; the only change is that unclaimed records
\* get claimed_by = U, the label and claimed_at.
C34_AllocateFrame ==
    [][\A s \in Slots :
          alloc'[s] # alloc[s] =>
              LET old == files[s[2]]
                  new == files'[s[2]]
              IN  /\ Len(new) = Len(old)
                  /\ \A i \in 1..Len(old) :
                        /\ new[i].v = old[i].v
                        /\ old[i].id # <<>> => new[i] = old[i]
                        /\ new[i] # old[i] =>
                              /\ new[i].id = str_int(s[1])
                              /\ new[i].name = Username[s[1]]
                              /\ new[i].date # <<>>
                  /\ \A q \in Pools \ {s[2]} : files'[q] = files[q]
                  /\ user_limits' = user_limits
                  /\ user_status' = user_status]_vars

\* An iteration of the unlock loop, and the pool it is at.
UnlockApply == unl.pc = "apply" /\ unl.used # <<>> /\ unl' # unl

\* C35: unlock applied twice in a row is unlock applied once: an unlock
\* leaves the identity with fewer records than its allowance, so the
\* application that follows changes nothing; an unlock that finds the extra
\* limit equal to the claimed count (the state an unlock leaves, no allocate
\* since) changes nothing; and an unlock that changes the ledger leaves
\* exactly one base batch open.
C35_UnlockIdempotent ==
    [][UnlockApply =>
          LET key == unl.used[unl.i]
              u == unl.u
              current == claimed_count(key, u)
              after == BaseLimit[key] + get_user_extra_limit(user_limits', u, key)
          IN  /\ files' = files
              /\ current < after
              /\ get_user_extra_limit(user_limits, u, key) = current =>
                    user_limits' = user_limits
              /\ user_limits' # user_limits => after = current + BaseLimit[key]]_vars

\* C35 witness: a second unlock is at a pool that the unlock before it
\* opened: the extra limit of the identity equals the records it holds.
C35_Witness ==
    /\ unl.pc = "apply"
    /\ unl.used # <<>>
    /\ claimed_count(unl.used[unl.i], unl.u) > 0
    /\ get_user_extra_limit(user_limits, unl.u, unl.used[unl.i])
          = claimed_count(unl.used[unl.i], unl.u)

\* C36: a step of clear-all (on_admin_delete_confirm, clear_all_databases,
\* the return) leaves the quota ledger and every identity status unchanged,
\* changes a pool only by emptying it to its header, and after it every
\* identity still holds at most its allowance.
C36_ClearAllFrame ==
    [][clr' # clr =>
          /\ user_limits' = user_limits
          /\ user_status' = user_status
          /\ \A p \in Pools : files'[p] # files[p] => files'[p] = <<Header>>
          /\ \A p \in Pools, u \in Users :
                Cardinality(ClaimedRows(files'[p], u))
                    <= BaseLimit[p] + get_user_extra_limit(user_limits', u, p)]_vars

\* C36 witness: clear-all has rewritten every pool file, and an identity
\* whose extra limit was raised before keeps it on a pool that is now empty.
C36_Witness ==
    /\ clr.pc = "ret"
    /\ clr.count = Len(PoolOrder)
    /\ \E p \in Pools, u \in Users :
          /\ files[p] = <<Header>>
          /\ get_user_extra_limit(user_limits, u, p) > 0
          /\ total_allowance(u, p) > BaseLimit[p]

\* ------------------------------------------------------- the admin dialog
\* class AdminStates, and "None" for an identity with no dialog state.
AdminStates == {"waiting_upload_choice", "waiting_file", "waiting_delete_confirm"}

is_admin(user_id) == user_id \in admins

\* on_admin_command in a private chat: the secret command stores the sender
\* as an admin and clears the dialog state.  Registered with no state filter.
on_admin_command(u) ==
    /\ admins' = admins \cup {u}
    /\ fsm' = [fsm EXCEPT ![u] = "None"]
    /\ UNCHANGED <<deleting, reg, sts, cts, files, user_limits, user_status, support_topics,
                   csv_lock, processing_users, alloc, imp, clr, unl, now, calls>>
    /\ History

\* on_admin_delete_start: the delete button, handled by the registration
\* without a state filter (a message in waiting_upload_choice goes to
\* on_admin_upload_choice instead).  A sender who is no admin gets nothing.
on_admin_delete_start(u) ==
    /\ fsm[u] # "waiting_upload_choice"
    /\ fsm' = IF is_admin(u) THEN [fsm EXCEPT ![u] = "waiting_delete_confirm"] ELSE fsm
    /\ UNCHANGED <<admins, deleting, reg, sts, cts, files, user_limits, user_status,
                   support_topics, csv_lock, processing_users, alloc, imp, clr, unl, now, calls>>
    /\ History

\* The confirm message of an identity in waiting_delete_confirm reaches
\* on_admin_delete_confirm, which runs up to csv_lock.acquire().
delete_confirm_message(u) ==
    /\ ~LoopBusy
    /\ Call
    /\ clr.pc = "idle"
    /\ fsm[u] = "waiting_delete_confirm"
    /\ is_admin(u)
    /\ deleting' = u
    /\ LET lock == acquire(csv_lock, ClearOp) IN
        /\ csv_lock' = lock
        /\ clr' = [pc |-> IF lock.holder = ClearOp THEN "run" ELSE "wait",
                   i |-> IF lock.holder = ClearOp THEN 1 ELSE 0, count |-> 0]
    /\ UNCHANGED <<admins, fsm, reg, sts, cts, files, user_limits, user_status, support_topics,
                   processing_users, alloc, imp, unl, now>>
    /\ History

\* on_admin_delete_confirm resumes: csv_lock is released; state.clear() runs
\* when clear_all_databases returned its count, and is not reached when it
\* raised (fewer files counted than there are pools).
delete_confirm_return ==
    /\ ~LoopBusy
    /\ clr.pc = "ret"
    /\ deleting # 0
    /\ LET lock == release(csv_lock) IN
        /\ csv_lock' = lock
        /\ alloc' = WokenAlloc(alloc, lock)
    /\ clr' = IdleClear
    /\ fsm' = IF clr.count = Len(PoolOrder) THEN [fsm EXCEPT ![deleting] = "None"] ELSE fsm
    /\ deleting' = 0
    /\ UNCHANGED <<admins, reg, sts, cts, files, user_limits, user_status, support_topics,
                   processing_users, imp, unl, now, calls>>
    /\ History

\* on_admin_delete_cancel: the cancel message of an identity in
\* waiting_delete_confirm clears the dialog state.
on_admin_delete_cancel(u) ==
    /\ fsm[u] = "waiting_delete_confirm"
    /\ fsm' = [fsm EXCEPT ![u] = "None"]
    /\ UNCHANGED <<admins, deleting, reg, sts, cts, files, user_limits, user_status,
                   support_topics, csv_lock, processing_users, alloc, imp, clr, unl, now, calls>>
    /\ History

\* on_admin_exit: the exit button clears the dialog state of any sender.
on_admin_exit(u) ==
    /\ fsm[u] # "waiting_upload_choice"
    /\ fsm' = [fsm EXCEPT ![u] = "None"]
    /\ UNCHANGED <<admins, deleting, reg, sts, cts, files, user_limits, user_status,
                   support_topics, csv_lock, processing_users, alloc, imp, clr, unl, now, calls>>
    /\ History

AdminNext ==
    \/ \E u \in Users : on_admin_command(u)
    \/ \E u \in Users : on_admin_delete_start(u)
    \/ \E u \in Users : delete_confirm_message(u)
    \/ clear_all_databases
    \/ clear_all_databases_raises
    \/ delete_confirm_return
    \/ \E u \in Users : on_admin_delete_cancel(u)
    \/ \E u \in Users : on_admin_exit(u)
    \/ \E u \in Users, p \in Pools : on_user_base_choice(u, p)
    \/ \E u \in Users, p \in Pools : worker_read(u, p)
    \/ \E u \in Users, p \in Pools : worker_write(u, p)
    \/ \E u \in Users, p \in Pools : allocate_return(u, p)

SpecAdmin == Init /\ [][AdminNext]_vars

\* C37: clear-all needs two steps.  The clear starts only on the confirm
\* message of an admin whose dialog state is waiting_delete_confirm, and only
\* an admin enters that state; a pool is emptied only by the running
\* clear_all_databases; a cancel, and every step of a request that arrived
\* in that state, leaves every pool unchanged; and when the confirm handler
\* ends or the cancel is handled the dialog state of the identity is cleared.
C37_TwoStepConfirm ==
    [][/\ clr.pc = "idle" /\ clr'.pc # "idle" =>
             /\ deleting' \in admins
             /\ fsm[deleting'] = "waiting_delete_confirm"
       /\ \A u \in Users :
             fsm[u] # "waiting_delete_confirm" /\ fsm'[u] = "waiting_delete_confirm" =>
                 u \in admins
       /\ \A p \in Pools :
             Len(files'[p]) < Len(files[p]) => clr.pc = "run"
       /\ \A u \in Users :
             fsm[u] = "waiting_delete_confirm" /\ fsm'[u] = "None" /\ deleting # u =>
                 files' = files
       /\ \A s \in asked : alloc'[s] # alloc[s] => files' = files
       /\ deleting # 0 /\ deleting' = 0 => fsm'[deleting] = "None"]_vars

====
